---- MODULE Spec2Model ----
(***************************************************************************)
(* Forecast & Validation Engine of the hockey betting model.               *)
(*                                                                         *)
(* Time is counted in whole minutes (the source counts milliseconds; every *)
(* TTL of the source is a whole number of minutes).  Player names are the  *)
(* normalised names the source uses as keys.                               *)
(***************************************************************************)
EXTENDS Integers, Sequences, FiniteSets, TLC

VARIABLES
    now,              \* Date.now(), in minutes
    ticks,            \* number of clock advances so far
    hasKey,           \* whether process.env.ODDS_API_KEY is set
    oddsPropsCache,   \* injury-service.ts: oddsPropsCache
    last401,          \* history: time of the latest HTTP 401 of the Odds API (-1: none)
    lastKnown,        \* history: oddsPropsCache.data right before the latest 401
    propsAttempt,     \* history: latest fetchPlayersWithProps call that reached the Odds API
    propsCall,        \* history: the latest fetchPlayersWithProps call
    gameLogsCache,    \* part_006: gameLogsCache, playerId -> entry
    teamDefenseCache, \* part_006: teamDefenseCache, teamAbbrev -> entry
    statsAttempt,     \* history: per cache and key, the latest call that reached the NHL API
    statsCall,        \* history: the latest fetchPlayerGameLogs / fetchTeamDefense call
    vIn,              \* arguments of a validatePlayerAvailability call
    vOut,             \* the PlayerAvailability it returned
    injuryCache,      \* injury-service.ts: injuryCache
    pc,               \* per caller: where it is suspended
    local,            \* per caller: the locals of its refreshInjuryCache run
    lastReturn,       \* history: what the latest caller got back
    roster,           \* what fetchTeamPlayerStats returns for the team
    injuries,         \* the team's validated injuries handed to calculateTeamImpact
    impact,           \* injuryCache.teamImpacts of the team
    gameAdj,          \* what getGamePredictionAdjustments returned last
    bet,              \* the latest classifyBet call: its arguments and its BetAnalysis
    betOrder,         \* history: how the latest classifyBet call compares with the one before
    silent,           \* the upstream hosts that never answer a request
    run,              \* one refreshInjuryCache run: where each of its fetches is suspended
    logsCall,         \* one fetchPlayerGameLogs call: where it is suspended
    fArgs,            \* the players, opponent, venue and prop type a forecast is asked for
    forecast,         \* what the forecast call returned
    et,               \* the Eastern date (a day number) and hour
    nhlSchedule,      \* what the NHL schedule API answers for the day
    scheduleCache,    \* cron/schedule/route.ts: scheduleCache
    lastRefresh,      \* games/route.ts: lastRefresh
    getPc,            \* per invocation of the refresh handler: where it is, its locals, its answer
    refreshesStarted, \* history: the (date, hour) of every data refresh started
    returningPlayers, \* injuryCache.returningPlayers, by normalised name
    lastTrack,        \* history: the last trackReturningPlayer call and the entry it found
    oddsCache,        \* player-props route: oddsCache
    propsResponse     \* player-props route: the response of the last GET

clockVars == <<now, ticks>>
oddsVars == <<hasKey, oddsPropsCache, last401, lastKnown, propsAttempt, propsCall>>
statsVars == <<gameLogsCache, teamDefenseCache, statsAttempt, statsCall>>
validateVars == <<vIn, vOut>>
refreshVars == <<injuryCache, pc, local, lastReturn>>
impactVars == <<roster, injuries, impact, gameAdj>>
betVars == <<bet, betOrder>>
timeoutVars == <<silent, run, logsCall>>
forecastVars == <<fArgs, forecast>>
cronVars == <<et, nhlSchedule, scheduleCache, lastRefresh, getPc, refreshesStarted>>
rustVars == <<returningPlayers, lastTrack>>
routeVars == <<oddsCache, propsResponse>>
lateVars == <<cronVars, rustVars, routeVars>>
analysisVars == <<betVars, timeoutVars, forecastVars, lateVars>>
coreVars == <<clockVars, oddsVars, statsVars, validateVars, refreshVars, impactVars>>
vars == <<clockVars, oddsVars, statsVars, validateVars, refreshVars, impactVars, analysisVars>>

----------------------------------------------------------------------------
(* Bounds *)

StartTime == 500
MaxTicks == 3
TickSteps == {3, 20, 61}
MaxWaits == 2
WaitSteps == {20, 121}
Players == {"a", "b"}
PlayerIds == {1}
TeamAbbrevs == {"BOS"}
Names == Players \cup {"c"}
Procs == {1, 2}
MaxInjuries == 7

----------------------------------------------------------------------------
(* Odds API props cache: injury-service.ts 266-295, 392-525 *)

ODDS_PROPS_CACHE_MINUTES == 5
QUOTA_LOCKOUT_MINUTES == 60
EVENTS_TO_CHECK == 2

\* oddsPropsCache = null
NoCache == [data |-> {}, timestamp |-> -1, quotaExceededUntil |-> 0, isNull |-> TRUE]

\* { data, timestamp, quotaExceededUntil? }; an absent quotaExceededUntil is 0 (falsy)
CacheEntry(d, t, q) == [data |-> d, timestamp |-> t, quotaExceededUntil |-> q, isNull |-> FALSE]

IsOddsApiAvailable_NeverExpires(cache, t) ==
    cache.isNull \/ cache.quotaExceededUntil = 0

\* isOddsApiAvailable (274-284)
IsOddsApiAvailable(cache, t) ==
    IF cache.isNull \/ cache.quotaExceededUntil = 0 THEN TRUE
    ELSE t > cache.quotaExceededUntil

MarkOddsApiQuotaExceeded(cache, t) ==
    IF ~cache.isNull
    THEN [cache EXCEPT !.quotaExceededUntil = t + QUOTA_LOCKOUT_MINUTES]
    ELSE CacheEntry({}, t, t + QUOTA_LOCKOUT_MINUTES)

\* One answer of the Odds API to a per-event props request.
PropsAnswers ==
    {[status |-> s, players |-> {}] : s \in {"401", "error", "throw"}}
    \cup {[status |-> "ok", players |-> ps] : ps \in SUBSET Players}

EventSeqs(k) == UNION {[1..n -> PropsAnswers] : n \in 0..k}

\* What the Odds API answers during one fetchPlayersWithProps call: the answer to
\* /events, whether x-requests-remaining is below 10, and the answers to the
\* props requests of today's first events (k: how many games are played today,
\* at most; the code asks for the first EVENTS_TO_CHECK of them).
OddsResponsesOf(k) ==
    {[events |-> s, low |-> FALSE, today |-> <<>>] : s \in {"401", "error", "throw"}}
    \cup {[events |-> "ok", low |-> TRUE, today |-> <<>>]}
    \cup {[events |-> "ok", low |-> FALSE, today |-> ev] : ev \in EventSeqs(k)}

OddsResponses == OddsResponsesOf(EVENTS_TO_CHECK)

\* The for loop over eventsToCheck (474-514); n counts the requests sent, q is
\* TRUE once a 401 was received.
RECURSIVE PropsLoop(_, _, _, _, _, _)
PropsLoop(cache, acc, evs, t, n, q) ==
    IF evs = <<>> \/ ~IsOddsApiAvailable(cache, t)
    THEN [cache |-> cache, acc |-> acc, nreq |-> n, got401 |-> q, failed |-> FALSE]
    ELSE LET r == Head(evs) IN
         IF r.status = "401"
         THEN [cache |-> MarkOddsApiQuotaExceeded(cache, t), acc |-> acc,
               nreq |-> n + 1, got401 |-> TRUE, failed |-> TRUE]
         ELSE LET rest == PropsLoop(cache, IF r.status = "ok" THEN acc \cup r.players ELSE acc,
                                    Tail(evs), t, n + 1, q)
              IN [rest EXCEPT !.failed = rest.failed \/ r.status # "ok"]

\* fetchPlayersWithProps (392-525): the cache after the call, the returned set,
\* the number of requests sent to the Odds API, whether a 401 came back, whether
\* the call returned from the lockout branch, and whether the refresh was degraded.
FetchPlayersWithPropsResult(cache, t, key, resp) ==
    IF ~IsOddsApiAvailable(cache, t)
    THEN [cache |-> cache, ret |-> cache.data, nreq |-> 0, got401 |-> FALSE,
          locked |-> TRUE, degraded |-> FALSE]
    ELSE IF ~cache.isNull /\ cache.quotaExceededUntil = 0
            /\ t - cache.timestamp < ODDS_PROPS_CACHE_MINUTES
    THEN [cache |-> cache, ret |-> cache.data, nreq |-> 0, got401 |-> FALSE,
          locked |-> FALSE, degraded |-> FALSE]
    ELSE IF ~key
    THEN [cache |-> cache, ret |-> {}, nreq |-> 0, got401 |-> FALSE,
          locked |-> FALSE, degraded |-> FALSE]
    ELSE IF resp.events = "401"
    THEN [cache |-> CacheEntry({}, t, t + QUOTA_LOCKOUT_MINUTES), ret |-> {}, nreq |-> 1,
          got401 |-> TRUE, locked |-> FALSE, degraded |-> TRUE]
    ELSE IF resp.events # "ok"
    THEN [cache |-> CacheEntry({}, t, 0), ret |-> {}, nreq |-> 1, got401 |-> FALSE,
          locked |-> FALSE, degraded |-> TRUE]
    ELSE IF resp.low \/ resp.today = <<>>
    THEN [cache |-> CacheEntry({}, t, 0), ret |-> {}, nreq |-> 1, got401 |-> FALSE,
          locked |-> FALSE, degraded |-> TRUE]
    ELSE LET l == PropsLoop(cache, {}, resp.today, t, 1, FALSE) IN
         [cache |-> CacheEntry(l.acc, t, 0), ret |-> l.acc, nreq |-> l.nreq,
          got401 |-> l.got401, locked |-> FALSE,
          degraded |-> l.failed \/ l.acc = {}]

NoAttempt == [t |-> -1, degraded |-> FALSE]
NoPropsCall == [t |-> -1, nreq |-> 0, ret |-> {}, locked |-> FALSE, prev401 |-> -1,
                prevAttempt |-> NoAttempt]

\* The history variables after a fetchPlayersWithProps call with result r.
OddsHistory(r) ==
    /\ last401' = IF r.got401 THEN now ELSE last401
    /\ lastKnown' = IF r.got401 THEN oddsPropsCache.data ELSE lastKnown
    /\ propsAttempt' = IF r.nreq > 0 THEN [t |-> now, degraded |-> r.degraded] ELSE propsAttempt
    /\ propsCall' = [t |-> now, nreq |-> r.nreq, ret |-> r.ret, locked |-> r.locked,
                     prev401 |-> last401, prevAttempt |-> propsAttempt]

InitClock == now = StartTime /\ ticks = 0

InitOdds ==
    /\ hasKey \in BOOLEAN
    /\ oddsPropsCache = NoCache
    /\ last401 = -1
    /\ lastKnown = {}
    /\ propsAttempt = NoAttempt
    /\ propsCall = NoPropsCall

\* Time passes: at most max times, by one of the given numbers of minutes.
TickBy(steps, max) ==
    /\ ticks < max
    /\ \E d \in steps : now' = now + d
    /\ ticks' = ticks + 1
    /\ UNCHANGED <<oddsVars, statsVars, validateVars, refreshVars, impactVars, analysisVars>>

\* Time passes between two calls.
Tick == TickBy(TickSteps, MaxTicks)

\* The Odds API is not under study: key set, nothing cached.
IdleOdds ==
    /\ hasKey = TRUE
    /\ oddsPropsCache = NoCache
    /\ last401 = -1
    /\ lastKnown = {}
    /\ propsAttempt = NoAttempt
    /\ propsCall = NoPropsCall

\* A call of fetchPlayersWithProps.
FetchPlayersWithProps ==
    \E resp \in OddsResponses :
        LET r == FetchPlayersWithPropsResult(oddsPropsCache, now, hasKey, resp) IN
        /\ oddsPropsCache' = r.cache
        /\ OddsHistory(r)
        /\ UNCHANGED <<clockVars, hasKey, statsVars, validateVars, refreshVars, impactVars, analysisVars>>

----------------------------------------------------------------------------
(* NHL API caches of the probability model: part_006 694-840 *)

CACHE_TTL_GAME_LOGS == 60
CACHE_TTL_TEAM_DEFENSE == 60

NoEntry == [isNull |-> TRUE, data |-> "none", timestamp |-> -1]
Entry(d, t) == [isNull |-> FALSE, data |-> d, timestamp |-> t]

\* fetchWithTimeout + res.ok + res.json(): "timeout" is the null of an aborted or
\* rejected fetch, "error" a response that is not ok, "throw" a body that is not
\* JSON; otherwise the parsed body.
GameLogAnswers == {"timeout", "error", "throw", "empty", "games"}
TeamDefenseAnswers == {"timeout", "error", "throw", "noGoalies", "starter"}

\* fetchPlayerGameLogs (746-788): the cache entry of the key after the call,
\* the returned list, and whether the NHL API was called.
FetchPlayerGameLogsResult(cached, t, ans) ==
    IF ~cached.isNull /\ t - cached.timestamp < CACHE_TTL_GAME_LOGS
    THEN [entry |-> cached, ret |-> cached.data, hit |-> FALSE, degraded |-> FALSE]
    ELSE IF ans \in {"timeout", "error"}
    THEN [entry |-> cached, ret |-> "empty", hit |-> TRUE, degraded |-> TRUE]
    ELSE IF ans = "throw"
    THEN [entry |-> cached, ret |-> "empty", hit |-> TRUE, degraded |-> TRUE]
    ELSE [entry |-> Entry(ans, t), ret |-> ans, hit |-> TRUE, degraded |-> ans = "empty"]

\* fetchTeamDefense (794-840); a body without goalies gives the league-average
\* defaults ("noGoalies"), a failure gives null.
FetchTeamDefenseResult(cached, t, ans) ==
    IF ~cached.isNull /\ t - cached.timestamp < CACHE_TTL_TEAM_DEFENSE
    THEN [entry |-> cached, ret |-> cached.data, hit |-> FALSE, degraded |-> FALSE]
    ELSE IF ans \in {"timeout", "error"}
    THEN [entry |-> cached, ret |-> "null", hit |-> TRUE, degraded |-> TRUE]
    ELSE IF ans = "throw"
    THEN [entry |-> cached, ret |-> "null", hit |-> TRUE, degraded |-> TRUE]
    ELSE [entry |-> Entry(ans, t), ret |-> ans, hit |-> TRUE, degraded |-> ans = "noGoalies"]

NoStatsCall == [cache |-> "none", t |-> -1, hit |-> FALSE, ret |-> "none",
                prevAttempt |-> NoAttempt]

InitStats ==
    /\ gameLogsCache = [p \in PlayerIds |-> NoEntry]
    /\ teamDefenseCache = [tm \in TeamAbbrevs |-> NoEntry]
    /\ statsAttempt = [gameLogs |-> [p \in PlayerIds |-> NoAttempt],
                       teamDefense |-> [tm \in TeamAbbrevs |-> NoAttempt]]
    /\ statsCall = NoStatsCall

StatsHistory(cache, key, r) ==
    /\ statsAttempt' = IF r.hit
                       THEN [statsAttempt EXCEPT ![cache][key] = [t |-> now, degraded |-> r.degraded]]
                       ELSE statsAttempt
    /\ statsCall' = [cache |-> cache, t |-> now, hit |-> r.hit, ret |-> r.ret,
                     prevAttempt |-> statsAttempt[cache][key]]

FetchPlayerGameLogs ==
    \E playerId \in PlayerIds, ans \in GameLogAnswers :
        LET r == FetchPlayerGameLogsResult(gameLogsCache[playerId], now, ans) IN
        /\ gameLogsCache' = [gameLogsCache EXCEPT ![playerId] = r.entry]
        /\ StatsHistory("gameLogs", playerId, r)
        /\ UNCHANGED <<clockVars, oddsVars, teamDefenseCache, validateVars, refreshVars, impactVars, analysisVars>>

FetchTeamDefense ==
    \E teamAbbrev \in TeamAbbrevs, ans \in TeamDefenseAnswers :
        LET r == FetchTeamDefenseResult(teamDefenseCache[teamAbbrev], now, ans) IN
        /\ teamDefenseCache' = [teamDefenseCache EXCEPT ![teamAbbrev] = r.entry]
        /\ StatsHistory("teamDefense", teamAbbrev, r)
        /\ UNCHANGED <<clockVars, oddsVars, gameLogsCache, validateVars, refreshVars, impactVars, analysisVars>>

----------------------------------------------------------------------------
(* Source reconciliation: injury-service.ts 530-590 *)

\* espnStatus (536)
EspnStatusOf(normalized, espnInjured) ==
    IF normalized \in espnInjured THEN "injured" ELSE "healthy"

OddsStatusOf_EmptyIsNoProps(normalized, playersWithProps) ==
    IF normalized \in playersWithProps THEN "has_props" ELSE "no_props"

\* oddsStatus (538-541): an empty props set is no signal at all
OddsStatusOf(normalized, playersWithProps) ==
    IF Cardinality(playersWithProps) > 0
    THEN (IF normalized \in playersWithProps THEN "has_props" ELSE "no_props")
    ELSE "unknown"

FinalVerdictOf_PropsDecide(espnStatus, oddsStatus) ==
    IF espnStatus = "injured"
    THEN (IF oddsStatus = "has_props" THEN "UNCERTAIN" ELSE "OUT")
    ELSE (IF oddsStatus = "no_props" THEN "UNCERTAIN" ELSE "PLAYING")

\* finalVerdict (551-577)
FinalVerdictOf(espnStatus, oddsStatus) ==
    IF espnStatus = "injured"
    THEN (IF oddsStatus = "has_props" THEN "UNCERTAIN" ELSE "OUT")
    ELSE (IF oddsStatus = "has_props" THEN "PLAYING" ELSE "PLAYING")

SourcesAgreeOf_UnknownCountsTwo(espnStatus, oddsStatus) ==
    IF espnStatus = "injured" /\ oddsStatus = "has_props" THEN 0
    ELSE IF oddsStatus = "unknown" THEN 2 ELSE 1

\* sourcesAgree (551-577)
SourcesAgreeOf(espnStatus, oddsStatus) ==
    IF espnStatus = "injured"
    THEN (IF oddsStatus = "has_props" THEN 0
          ELSE IF oddsStatus = "no_props" THEN 2 ELSE 1)
    ELSE (IF oddsStatus = "has_props" THEN 2 ELSE 1)

\* validatePlayerAvailability; the fields that only copy injuryDetails are left out.
ValidatePlayerAvailability(normalized, espnInjured, playersWithProps) ==
    LET espnStatus == EspnStatusOf(normalized, espnInjured)
        oddsStatus == OddsStatusOf(normalized, playersWithProps)
    IN [normalizedName |-> normalized, espnStatus |-> espnStatus, oddsStatus |-> oddsStatus,
        finalVerdict |-> FinalVerdictOf(espnStatus, oddsStatus),
        sourcesAgree |-> SourcesAgreeOf(espnStatus, oddsStatus)]

NoAvailability == [normalizedName |-> "", espnStatus |-> "unknown", oddsStatus |-> "unknown",
                   finalVerdict |-> "none", sourcesAgree |-> 0]

InitValidate ==
    /\ vIn \in [normalized : Names, espnInjured : SUBSET Names, playersWithProps : SUBSET Names]
    /\ vOut = NoAvailability

\* No validatePlayerAvailability call is under study.
IdleValidate ==
    /\ vIn = [normalized |-> "a", espnInjured |-> {}, playersWithProps |-> {}]
    /\ vOut = NoAvailability

\* One call of validatePlayerAvailability on the drawn arguments.
Validate ==
    /\ vOut = NoAvailability
    /\ vOut' = ValidatePlayerAvailability(vIn.normalized, vIn.espnInjured, vIn.playersWithProps)
    /\ UNCHANGED <<clockVars, oddsVars, statsVars, vIn, refreshVars, impactVars, analysisVars>>

----------------------------------------------------------------------------
(* Injury cache: injury-service.ts 252-266, 799-931, 1044-1051 *)

CACHE_TTL == 120

ActiveStatuses == {"OUT", "IR", "LTIR", "DAY_TO_DAY", "SUSPENDED"}

\* What fetchESPNInjuries returns, as the status of each listed player ("none":
\* not listed; a failed fetch lists nobody).
EspnAnswers == [Players -> {"none", "OUT", "QUESTIONABLE"}]

\* STEP 2 (811-825)
EspnInjuredOf(espnInjuries) ==
    {n \in DOMAIN espnInjuries : espnInjuries[n] \in ActiveStatuses}

\* STEP 3 (831-864): the availability record of every ESPN-injured player
PlayerAvailabilityOf(espnInjured, playersWithProps) ==
    [n \in espnInjured |-> ValidatePlayerAvailability(n, espnInjured, playersWithProps)]

AllInjuredNamesOf_OutOnly(availability) ==
    {n \in DOMAIN availability : availability[n].finalVerdict = "OUT"}

\* STEP 3 (854-863): OUT and UNCERTAIN go to allInjuredNames, PLAYING does not
AllInjuredNamesOf(availability) ==
    {n \in DOMAIN availability : availability[n].finalVerdict = "OUT"}
    \cup {n \in DOMAIN availability : availability[n].finalVerdict \notin {"OUT", "PLAYING"}}

ValidationSummaryOf_UncertainAsPlaying(espnInjured, playersWithProps, availability) ==
    [espnCount |-> Cardinality(espnInjured),
     propsCount |-> Cardinality(playersWithProps),
     agreedOut |-> Cardinality({n \in DOMAIN availability : availability[n].finalVerdict = "OUT"}),
     agreedPlaying |-> Cardinality({n \in DOMAIN availability : availability[n].finalVerdict # "OUT"}),
     uncertain |-> 0]

\* The counters of STEP 3 (838-864) as stored at 887-893
ValidationSummaryOf(espnInjured, playersWithProps, availability) ==
    [espnCount |-> Cardinality(espnInjured),
     propsCount |-> Cardinality(playersWithProps),
     agreedOut |-> Cardinality({n \in DOMAIN availability : availability[n].finalVerdict = "OUT"}),
     agreedPlaying |-> Cardinality({n \in DOMAIN availability : availability[n].finalVerdict = "PLAYING"}),
     uncertain |-> Cardinality({n \in DOMAIN availability :
                                   availability[n].finalVerdict \notin {"OUT", "PLAYING"}})]

\* The cache update of refreshInjuryCache (880-896); returningPlayers and the team
\* impacts are modelled with the impact quantification below.
RefreshedCache(espnInjured, playersWithProps, t) ==
    LET availability == PlayerAvailabilityOf(espnInjured, playersWithProps) IN
    [allInjuredNames |-> AllInjuredNamesOf(availability),
     espnInjured |-> espnInjured,
     playersWithProps |-> playersWithProps,
     playerAvailability |-> availability,
     validationSummary |-> ValidationSummaryOf(espnInjured, playersWithProps, availability),
     timestamp |-> t]

\* The checks `Date.now() - injuryCache.timestamp > CACHE_TTL` of the public functions
CacheExpired(cache, t) == t - cache.timestamp > CACHE_TTL

\* isPlayerInjured (916-919), after its refresh check
IsPlayerInjured(cache, n) == n \in cache.allInjuredNames

\* getPlayerPropsAdjustment (1044-1051): productionMultiplier, in thousandths, of a
\* player who is not returning from injury and whose team has no impact record
GetPlayerPropsAdjustment(cache, n) ==
    IF n \in cache.allInjuredNames
    THEN [productionMultiplier |-> 0, isInjured |-> TRUE]
    ELSE [productionMultiplier |-> 1000, isInjured |-> FALSE]

\* getPlayerAvailability (928-931): the verdict of the stored record
GetPlayerAvailability(cache, n) ==
    IF n \in DOMAIN cache.playerAvailability
    THEN cache.playerAvailability[n].finalVerdict
    ELSE "null"

NoLocal == [espnInjured |-> {}, playersWithProps |-> {}]
NoReturn == [arg |-> "", isPlayerInjured |-> FALSE, productionMultiplier |-> 1000,
             availability |-> "null"]

\* What the public functions return for player n, read from the cache.
ReturnOf(cache, n) ==
    [arg |-> n,
     isPlayerInjured |-> IsPlayerInjured(cache, n),
     productionMultiplier |-> GetPlayerPropsAdjustment(cache, n).productionMultiplier,
     availability |-> GetPlayerAvailability(cache, n)]

InitRefresh ==
    /\ injuryCache = [allInjuredNames |-> {}, espnInjured |-> {}, playersWithProps |-> {},
                      playerAvailability |-> [n \in {} |-> NoAvailability],
                      validationSummary |-> [espnCount |-> 0, propsCount |-> 0, agreedOut |-> 0,
                                             agreedPlaying |-> 0, uncertain |-> 0],
                      timestamp |-> 0]
    /\ pc = [p \in Procs |-> "idle"]
    /\ local = [p \in Procs |-> NoLocal]
    /\ lastReturn = NoReturn

\* A public function (getTeamInjuryImpact, isPlayerInjured, getInjuredPlayerNames,
\* getPlayerAvailability, getPlayerPropsAdjustment, getGamePredictionAdjustments)
\* finds the cache fresh and answers from it.
CallFresh(p) ==
    /\ pc[p] = "idle"
    /\ ~CacheExpired(injuryCache, now)
    /\ \E n \in Players : lastReturn' = ReturnOf(injuryCache, n)
    /\ UNCHANGED <<clockVars, oddsVars, statsVars, validateVars, injuryCache, pc, local, impactVars, analysisVars>>

\* A public function finds the cache expired and awaits refreshInjuryCache, which
\* starts its two fetches (806-809).
CallExpired(p) ==
    /\ pc[p] = "idle"
    /\ CacheExpired(injuryCache, now)
    /\ pc' = [pc EXCEPT ![p] = "fetching"]
    /\ UNCHANGED <<clockVars, oddsVars, statsVars, validateVars, injuryCache, local, lastReturn, impactVars, analysisVars>>

\* Both fetches have answered: fetchPlayersWithProps has updated its cache, steps 2
\* and 3 run, and step 4 awaits the club stats of the first team (866-877).
FetchesDone(p) ==
    /\ pc[p] = "fetching"
    /\ \E espnInjuries \in EspnAnswers, resp \in OddsResponsesOf(1) :
        LET r == FetchPlayersWithPropsResult(oddsPropsCache, now, hasKey, resp) IN
        /\ oddsPropsCache' = r.cache
        /\ local' = [local EXCEPT ![p] = [espnInjured |-> EspnInjuredOf(espnInjuries),
                                          playersWithProps |-> r.ret]]
    /\ pc' = [pc EXCEPT ![p] = "impacts"]
    /\ UNCHANGED <<clockVars, hasKey, last401, lastKnown, propsAttempt, propsCall,
                   statsVars, validateVars, injuryCache, lastReturn, impactVars, analysisVars>>

\* The team impacts are computed: the cache is replaced (880-896) and the caller
\* reads its answer from it.
ImpactsDone(p) ==
    /\ pc[p] = "impacts"
    /\ injuryCache' = RefreshedCache(local[p].espnInjured, local[p].playersWithProps, now)
    /\ \E n \in Players : lastReturn' = ReturnOf(injuryCache', n)
    /\ pc' = [pc EXCEPT ![p] = "idle"]
    /\ local' = [local EXCEPT ![p] = NoLocal]
    /\ UNCHANGED <<clockVars, oddsVars, statsVars, validateVars, impactVars, analysisVars>>

----------------------------------------------------------------------------
(* Impact quantification: injury-service.ts 117-177, 594-795, 975-1033,    *)
(* 1169-1363.  Numbers are fixed-point integers; the unit of each quantity *)
(* is named where it is defined.  Scores are counted in twentieths: the    *)
(* rosters below make every points share a multiple of 1/40.               *)

WP_UNIT == 160000000    \* totalWinProbAdjustment 1.0 = 40000 * 200 * 20
PP_UNIT == 4000000      \* powerPlayAdjustment 1.0 = 20000 * 200
PK_UNIT == 80000000     \* penaltyKillAdjustment 1.0 = 400000 * 200

\* The clamp bounds of 778-783: 0.3, 0.15, 0.1, and 0.5 in hundredths
WP_BOUND == (3 * WP_UNIT) \div 10
PP_BOUND == (15 * PP_UNIT) \div 100
PK_BOUND == PK_UNIT \div 10
XG_BOUND == 50

Min(a, b) == IF a < b THEN a ELSE b
Max(a, b) == IF a > b THEN a ELSE b
Clamp(lo, hi, x) == Max(lo, Min(hi, x))

\* POSITION_VALUE, in twentieths (117-124, default 1.0 at 1341)
PositionValue(position) ==
    CASE position = "G" -> 30
      [] position = "D" -> 24
      [] position = "C" -> 22
      [] position = "F" -> 21
      [] OTHER -> 20

\* MAX_WIN_PROB_IMPACT, in hundredths (126-133, default 0.05 at 1342)
MaxWinProbImpact(position) ==
    CASE position = "G" -> 10
      [] position = "D" -> 7
      [] position = "C" -> 6
      [] OTHER -> 5

\* TIER_THRESHOLDS (137-143) applied to a score in twentieths (1269-1274, 1333-1338)
TierOf(importanceScore) ==
    IF importanceScore >= 14 THEN 1
    ELSE IF importanceScore >= 10 THEN 2
    ELSE IF importanceScore >= 7 THEN 3
    ELSE IF importanceScore >= 4 THEN 4
    ELSE 5

\* calculateCompoundingMultiplier (169-177), in two-hundredths
CalculateCompoundingMultiplier(injuryCount, manGamesLost) ==
    LET m1 == IF injuryCount >= 5 THEN 150
              ELSE IF injuryCount >= 4 THEN 100
              ELSE IF injuryCount >= 3 THEN 60
              ELSE IF injuryCount >= 2 THEN 30
              ELSE 200
        m2 == IF manGamesLost > 30 THEN ((m1 * 11) \div 10) ELSE m1
    IN Min(m2, 400)

\* The rosters fetchTeamPlayerStats can return.  A skater: points, positionCode,
\* avgToi (seconds), powerPlayPoints.  A goalie: gamesPlayed, savePctg (thousandths).
Skater(pts, pos, toi, ppp) == [points |-> pts, positionCode |-> pos, avgToi |-> toi,
                               powerPlayPoints |-> ppp]
Goalie(gp, sv) == [gamesPlayed |-> gp, savePctg |-> sv]

Rosters == <<
    \* the fetch failed (611-614), or answered without skaters
    [skaters |-> <<>>, goalies |-> <<>>],
    \* one star, no second scorer
    [skaters |-> <<Skater(75, "D", 1500, 25), Skater(25, "C", 1100, 0), Skater(25, "L", 600, 0),
                   Skater(25, "C", 1000, 5), Skater(25, "R", 900, 0), Skater(15, "D", 1200, 0),
                   Skater(10, "L", 800, 0)>>,
     goalies |-> <<Goalie(40, 920), Goalie(12, 900)>>],
    \* one star with a second scorer
    [skaters |-> <<Skater(60, "C", 1300, 30), Skater(30, "D", 1400, 10), Skater(30, "L", 1000, 0),
                   Skater(30, "R", 900, 0), Skater(25, "C", 800, 0), Skater(25, "D", 1200, 0)>>,
     goalies |-> <<Goalie(20, 910), Goalie(35, 915)>>],
    \* two stars
    [skaters |-> <<Skater(50, "C", 1300, 25), Skater(50, "D", 1500, 10), Skater(25, "L", 1000, 0),
                   Skater(25, "R", 900, 0), Skater(25, "C", 800, 0), Skater(25, "D", 1200, 0)>>,
     goalies |-> <<Goalie(45, 905)>>],
    \* balanced scoring
    [skaters |-> <<Skater(35, "C", 1200, 0), Skater(35, "D", 1300, 35), Skater(35, "L", 1000, 0),
                   Skater(35, "R", 900, 0), Skater(30, "C", 800, 0), Skater(30, "D", 1100, 0)>>,
     goalies |-> <<Goalie(30, 913), Goalie(30, 916)>>] >>

RECURSIVE SumPoints(_)
SumPoints(sk) == IF sk = <<>> THEN 0 ELSE Head(sk).points + SumPoints(Tail(sk))

\* teamStats.points || sum of the players' points || 1 (1185, 1305)
TotalTeamPoints(r) == IF SumPoints(r.skaters) = 0 THEN 1 ELSE SumPoints(r.skaters)

\* calculateStarConcentration (1169-1241): concentrationMultiplier, in twentieths
CalculateStarConcentration(r) ==
    IF r.skaters = <<>> THEN 20
    ELSE LET total == TotalTeamPoints(r)
             idx == DOMAIN r.skaters
             \* share >= 0.2, share >= 0.15
             tier1Count == Cardinality({i \in idx : 5 * r.skaters[i].points >= total})
             top == CHOOSE i \in idx : \A j \in idx : r.skaters[i].points >= r.skaters[j].points
             secondPoints == IF Cardinality(idx) > 1
                             THEN LET j == CHOOSE j \in idx \ {top} :
                                            \A k \in idx \ {top} :
                                                r.skaters[j].points >= r.skaters[k].points
                                  IN r.skaters[j].points
                             ELSE 0
             hasSecondaryStar == 20 * secondPoints >= 3 * total
         IN IF tier1Count = 1 /\ ~hasSecondaryStar THEN 28
            ELSE IF tier1Count = 1 /\ hasSecondaryStar THEN 25
            ELSE IF tier1Count >= 2 THEN 20
            ELSE 16

\* An injury handed to calculateTeamImpact: the ESPN position and status, and
\* where the player's record is in the roster (0: no record matches his name).
Injury(pos, st, sk, gl) == [position |-> pos, status |-> st, skater |-> sk, goalie |-> gl]

\* calculatePlayerImportance (1298-1363).  playerStats is a roster skater, or the
\* placeholder of 709-718 (points 20, no powerPlayPoints, toiRank 0).
\* winProbImpact in 1/40000, ppImpact in 1/20000, pkImpact in 1/400000.
CalculatePlayerImportance(r, inj) ==
    LET found == inj.skater > 0
        ps == IF found THEN r.skaters[inj.skater]
              ELSE Skater(20, inj.position, 900, 0)
        position == ps.positionCode
        toiRank == IF found
                   THEN 1 + Cardinality({j \in DOMAIN r.skaters :
                                            \/ r.skaters[j].avgToi > ps.avgToi
                                            \/ r.skaters[j].avgToi = ps.avgToi /\ j < inj.skater})
                   ELSE 0
        ppTimeShare == IF ps.powerPlayPoints > 0
                       THEN ((30 * ps.powerPlayPoints) \div Max(ps.points, 1))
                       ELSE 10
        pkTimeShare == IF position = "D" \/ position = "C" THEN 15 ELSE 5
        importanceScore ==
            Min(20, ((40 * ps.points) \div TotalTeamPoints(r))
                    + (IF toiRank <= 6 THEN 3 ELSE 0)
                    + (IF position = "C" THEN 1 ELSE 0)
                    + (IF position = "D" THEN 2 ELSE 0))
    IN [tier |-> TierOf(importanceScore),
        importanceScore |-> importanceScore,
        winProbImpact |-> -(importanceScore * MaxWinProbImpact(position) * PositionValue(position)),
        ppImpact |-> -(ppTimeShare * importanceScore),
        pkImpact |-> -(pkTimeShare * importanceScore * 10)]

\* calculateGoalieImportance (1243-1296) with the goalie handling of
\* calculateTeamImpact (676-705).  playerStats is a roster goalie, or the
\* placeholder of 679-686 (gamesPlayed 30, savePctg .910, toiRank 0).
CalculateGoalieImportance(r, inj) ==
    LET found == inj.goalie > 0
        ps == IF found THEN r.goalies[inj.goalie] ELSE Goalie(30, 910)
        toiRank == IF found
                   THEN 1 + Cardinality({j \in DOMAIN r.goalies :
                                            \/ r.goalies[j].gamesPlayed > ps.gamesPlayed
                                            \/ r.goalies[j].gamesPlayed = ps.gamesPlayed
                                                  /\ j < inj.goalie})
                   ELSE 0
        importanceScore ==
            Min(20, 10 + (IF toiRank = 1 THEN 6 ELSE 0)
                       + (IF ps.savePctg - 905 > 10 THEN 4 ELSE 0)
                       + (IF ps.gamesPlayed > 30 THEN 2 ELSE 0))
        winProbImpact == -(importanceScore * MaxWinProbImpact("G") * PositionValue("G"))
        others == DOMAIN r.goalies \ {inj.goalie}
        \* goalies.find((g) => g.playerId !== playerStats.playerId): the first other goalie
        eliteBackup == /\ found /\ toiRank # 1 /\ others # {}
                       /\ r.goalies[CHOOSE j \in others : \A k \in others : j <= k].savePctg >= 913
    IN [tier |-> TierOf(importanceScore),
        importanceScore |-> importanceScore,
        winProbImpact |-> IF eliteBackup THEN -((-winProbImpact) \div 2) ELSE winProbImpact,
        ppImpact |-> 0,
        pkImpact |-> winProbImpact * 3]

ImportanceOf_RecordsOnly(r, inj) ==
    IF inj.skater = 0 /\ inj.goalie = 0
    THEN [tier |-> 5, importanceScore |-> 0, winProbImpact |-> 0, ppImpact |-> 0, pkImpact |-> 0]
    ELSE IF inj.position = "G" THEN CalculateGoalieImportance(r, inj)
    ELSE CalculatePlayerImportance(r, inj)
ImportanceOf(r, inj) ==
    IF inj.position = "G" THEN CalculateGoalieImportance(r, inj)
    ELSE CalculatePlayerImportance(r, inj)

\* activeInjuries (646-653)
IsActive(inj) == inj.status \in ActiveStatuses

RECURSIVE ActiveInjuries(_)
ActiveInjuries(injs) ==
    IF injs = <<>> THEN <<>>
    ELSE IF IsActive(Head(injs)) THEN <<Head(injs)>> \o ActiveInjuries(Tail(injs))
    ELSE ActiveInjuries(Tail(injs))

\* The for loop of calculateTeamImpact (666-754): the sums over the active injuries
RECURSIVE ImpactLoop(_, _, _)
ImpactLoop(r, injs, acc) ==
    IF injs = <<>> THEN acc
    ELSE LET inj == Head(injs)
             imp == ImportanceOf(r, inj)
         IN ImpactLoop(r, Tail(injs),
                [totalWinProbAdjustment |-> acc.totalWinProbAdjustment + imp.winProbImpact,
                 powerPlayAdjustment |-> acc.powerPlayAdjustment + imp.ppImpact,
                 penaltyKillAdjustment |-> acc.penaltyKillAdjustment + imp.pkImpact,
                 centersOut |-> acc.centersOut + (IF inj.position = "C" THEN 1 ELSE 0),
                 defensemenOut |-> acc.defensemenOut + (IF inj.position = "D" THEN 1 ELSE 0),
                 topPlayerInjured |-> acc.topPlayerInjured
                                        \/ (inj.position # "G" /\ imp.tier = 1),
                 starPlayersOut |-> IF imp.tier <= 2 THEN Append(acc.starPlayersOut, imp.tier)
                                    ELSE acc.starPlayersOut,
                 manGamesLost |-> acc.manGamesLost + 5])

NoSums == [totalWinProbAdjustment |-> 0, powerPlayAdjustment |-> 0, penaltyKillAdjustment |-> 0,
           centersOut |-> 0, defensemenOut |-> 0, topPlayerInjured |-> FALSE,
           starPlayersOut |-> <<>>, manGamesLost |-> 0]

\* calculateTeamImpact (619-795).  totalWinProbAdjustment in 1/WP_UNIT,
\* powerPlayAdjustment in 1/PP_UNIT, penaltyKillAdjustment in 1/PK_UNIT, the
\* expected-goals adjustments in hundredths, compoundingMultiplier in two-hundredths;
\* starPlayersOut keeps the tier of each star.
CalculateTeamImpact(r, injs) ==
    LET active == ActiveInjuries(injs)
        sums == ImpactLoop(r, active, NoSums)
        injuryCount == Len(active)
        compoundingMultiplier == CalculateCompoundingMultiplier(injuryCount, sums.manGamesLost)
        concentrationMultiplier ==
            IF Len(sums.starPlayersOut) > 0 \/ sums.topPlayerInjured
            THEN CalculateStarConcentration(r) ELSE 20
    IN IF active = <<>>
       THEN [isNull |-> FALSE, injuryCount |-> 0, manGamesLost |-> 0,
             compoundingMultiplier |-> 200, starPlayersOut |-> <<>>,
             totalWinProbAdjustment |-> 0, powerPlayAdjustment |-> 0,
             penaltyKillAdjustment |-> 0, expectedGoalsForAdjustment |-> 0,
             expectedGoalsAgainstAdjustment |-> 0]
       ELSE [isNull |-> FALSE, injuryCount |-> injuryCount, manGamesLost |-> sums.manGamesLost,
             compoundingMultiplier |-> compoundingMultiplier,
             starPlayersOut |-> sums.starPlayersOut,
             totalWinProbAdjustment |->
                 Clamp(-WP_BOUND, WP_BOUND,
                       sums.totalWinProbAdjustment * compoundingMultiplier * concentrationMultiplier),
             powerPlayAdjustment |->
                 Clamp(-PP_BOUND, PP_BOUND, sums.powerPlayAdjustment * compoundingMultiplier),
             penaltyKillAdjustment |->
                 Clamp(-PK_BOUND, PK_BOUND,
                       sums.penaltyKillAdjustment * compoundingMultiplier),
             expectedGoalsForAdjustment |-> Clamp(-XG_BOUND, XG_BOUND, -(15 * sums.centersOut)),
             expectedGoalsAgainstAdjustment |-> Clamp(-XG_BOUND, XG_BOUND, 20 * sums.defensemenOut)]

\* teamImpacts.get(team) of a team without injuries on the ESPN list
NoImpact == [isNull |-> TRUE, injuryCount |-> 0, manGamesLost |-> 0,
             compoundingMultiplier |-> 200, starPlayersOut |-> <<>>,
             totalWinProbAdjustment |-> 0, powerPlayAdjustment |-> 0,
             penaltyKillAdjustment |-> 0, expectedGoalsForAdjustment |-> 0,
             expectedGoalsAgainstAdjustment |-> 0]

\* The back-to-back step of getGamePredictionAdjustments (989-1005); the result
\* is in 1/(20 * WP_UNIT): (1 + adj) * 0.95 - 1 = (19 * adj - 1) / 20.
WinProbAdjustment(imp, isB2B) ==
    IF isB2B /\ ~imp.isNull /\ imp.injuryCount > 0
    THEN 19 * imp.totalWinProbAdjustment - WP_UNIT
    ELSE 20 * imp.totalWinProbAdjustment

\* getGamePredictionAdjustments (975-1033), on a fresh cache
GetGamePredictionAdjustmentsResult(homeImpact, awayImpact, isHomeB2B, isAwayB2B) ==
    [called |-> TRUE,
     homeWinProbAdjustment |-> WinProbAdjustment(homeImpact, isHomeB2B),
     awayWinProbAdjustment |-> WinProbAdjustment(awayImpact, isAwayB2B),
     homePPAdjustment |-> homeImpact.powerPlayAdjustment,
     awayPPAdjustment |-> awayImpact.powerPlayAdjustment,
     homePKAdjustment |-> homeImpact.penaltyKillAdjustment,
     awayPKAdjustment |-> awayImpact.penaltyKillAdjustment]

NoGameAdj == [called |-> FALSE, homeWinProbAdjustment |-> 0, awayWinProbAdjustment |-> 0,
              homePPAdjustment |-> 0, awayPPAdjustment |-> 0,
              homePKAdjustment |-> 0, awayPKAdjustment |-> 0]

\* The injuries ESPN can list for the team, in a fixed order: the first three
\* skaters and the goalies of the roster, and players without a record.
InjuryKinds(r) ==
    LET PositionOf(k) == IF k <= Len(r.skaters) THEN r.skaters[k].positionCode ELSE "F"
    IN << Injury(PositionOf(1), "OUT", 1, 0),
          Injury(PositionOf(2), "OUT", 2, 0),
          Injury(PositionOf(3), "OUT", 3, 0),
          Injury("G", "DAY_TO_DAY", 0, 1),
          Injury("G", "DAY_TO_DAY", 0, 2),
          Injury("D", "OUT", 0, 0),
          Injury("C", "IR", 0, 0),
          Injury("G", "LTIR", 0, 0),
          Injury("F", "QUESTIONABLE", 0, 0) >>

KindAvailable(r, k) ==
    /\ InjuryKinds(r)[k].skater <= Len(r.skaters)
    /\ InjuryKinds(r)[k].goalie <= Len(r.goalies)

InjuriesOf(r, kinds) == [i \in DOMAIN kinds |-> InjuryKinds(r)[kinds[i]]]

InitImpact ==
    /\ roster \in DOMAIN Rosters
    /\ injuries = <<>>
    /\ impact = NoImpact
    /\ gameAdj = NoGameAdj

IdleImpact ==
    /\ roster = 1
    /\ injuries = <<>>
    /\ impact = NoImpact
    /\ gameAdj = NoGameAdj

\* A refresh finds one more injured player on the team's ESPN list and
\* recomputes the team impact (refreshInjuryCache 866-877).
AddInjury ==
    /\ Len(injuries) < MaxInjuries
    /\ \E k \in DOMAIN InjuryKinds(Rosters[roster]) :
        /\ KindAvailable(Rosters[roster], k)
        /\ injuries # <<>> => k >= injuries[Len(injuries)]
        /\ (injuries # <<>> /\ k = injuries[Len(injuries)]) =>
              /\ InjuryKinds(Rosters[roster])[k].skater = 0
              /\ InjuryKinds(Rosters[roster])[k].goalie = 0
        /\ injuries' = Append(injuries, k)
        /\ impact' = CalculateTeamImpact(Rosters[roster], InjuriesOf(Rosters[roster], injuries'))
    /\ gameAdj' = NoGameAdj
    /\ UNCHANGED <<clockVars, oddsVars, statsVars, validateVars, refreshVars, roster, analysisVars>>

\* getGamePredictionAdjustments for a game of the team, at home or away, against
\* a team without an impact record.
GetGamePredictionAdjustments ==
    /\ \E teamIsHome, isHomeB2B, isAwayB2B \in BOOLEAN :
        gameAdj' = IF teamIsHome
                   THEN GetGamePredictionAdjustmentsResult(impact, NoImpact, isHomeB2B, isAwayB2B)
                   ELSE GetGamePredictionAdjustmentsResult(NoImpact, impact, isHomeB2B, isAwayB2B)
    /\ UNCHANGED <<clockVars, oddsVars, statsVars, validateVars, refreshVars,
                   roster, injuries, impact, analysisVars>>

----------------------------------------------------------------------------
(* Bet classification: injury-service.ts 1409-1660.  Probabilities are     *)
(* counted in thousandths, confidence and edge thresholds in hundredths.   *)
(* An implied probability is the exact fraction num / den, and an edge the *)
(* exact fraction edgeNum / (1000 * edgeDen).                              *)

PropTypes == {"shots", "saves", "points", "goalscorer", "assists"}

PROP_THRESHOLDS_GoalscorerForAll(propType) ==
    [minEdgeValue |-> 5, minEdgeStrong |-> 7, minEdgeBest |-> 10,
     minGamesPlayed |-> 30, varianceLevel |-> "high"]

\* PROP_THRESHOLDS (1411-1453)
PROP_THRESHOLDS(propType) ==
    CASE propType = "shots" ->
           [minEdgeValue |-> 3, minEdgeStrong |-> 5, minEdgeBest |-> 7,
            minGamesPlayed |-> 15, varianceLevel |-> "low"]
      [] propType = "saves" ->
           [minEdgeValue |-> 3, minEdgeStrong |-> 5, minEdgeBest |-> 7,
            minGamesPlayed |-> 20, varianceLevel |-> "low"]
      [] propType = "points" ->
           [minEdgeValue |-> 3, minEdgeStrong |-> 5, minEdgeBest |-> 8,
            minGamesPlayed |-> 20, varianceLevel |-> "medium"]
      [] propType = "assists" ->
           [minEdgeValue |-> 4, minEdgeStrong |-> 6, minEdgeBest |-> 8,
            minGamesPlayed |-> 20, varianceLevel |-> "high"]
      [] OTHER ->
           [minEdgeValue |-> 5, minEdgeStrong |-> 7, minEdgeBest |-> 10,
            minGamesPlayed |-> 30, varianceLevel |-> "high"]

\* THRESHOLDS (1456-1463): probabilities in thousandths, confidence in hundredths
THRESHOLDS ==
    [MIN_PROB_FOR_LEAN |-> 500, MIN_PROB_FOR_BEST |-> 550,
     MIN_CONFIDENCE_VALUE |-> 50, MIN_CONFIDENCE_STRONG |-> 65,
     MIN_CONFIDENCE_BEST |-> 75, MAX_EDGE_SUSPICIOUS |-> 25]

\* KELLY_FRACTIONS (1466-1472), in hundredths
KELLY_FRACTIONS(classification) ==
    CASE classification = "best_bet" -> 50
      [] classification = "strong_value" -> 25
      [] classification = "value" -> 15
      [] classification = "lean" -> 10
      [] OTHER -> 0

\* bookOdds null; `!bookOdds` and `bookOdds || 0` treat null and 0 alike
NoOdds == 0

\* americanToImpliedProb (1477-1487) as the fraction num / den
AmericanToImpliedProb(odds) ==
    IF odds = 0 THEN [num |-> 0, den |-> 1]
    ELSE IF odds > 0 THEN [num |-> 100, den |-> odds + 100]
    ELSE [num |-> -odds, den |-> (-odds) + 100]

\* edge >= t (1612-1614), t in hundredths
EdgeAtLeast_Reversed(result, t) == result.edgeNum <= 10 * t * result.edgeDen
EdgeAtLeast(result, t) == result.edgeNum >= 10 * t * result.edgeDen

\* edge > MAX_EDGE_SUSPICIOUS (1603)
EdgeSuspicious(result) ==
    result.edgeNum > 10 * THRESHOLDS.MAX_EDGE_SUSPICIOUS * result.edgeDen

\* The classification and its stake fraction are assigned together (1584-1585,
\* 1624-1625, 1633-1634, 1641-1642, 1648-1649).
Classified_StakeForgotten(result, classification) ==
    [result EXCEPT !.classification = classification,
                   !.kellyFraction = IF classification = "lean" THEN 0
                                     ELSE KELLY_FRACTIONS(classification)]
Classified(result, classification) ==
    [result EXCEPT !.classification = classification,
                   !.kellyFraction = KELLY_FRACTIONS(classification)]

\* The gate of the branch without book odds (1581-1583)
LeanWithoutOdds_IgnoresConfidence(modelProbability, confidence, hasSufficientSample) ==
    /\ modelProbability >= THRESHOLDS.MIN_PROB_FOR_LEAN
    /\ hasSufficientSample
LeanWithoutOdds(modelProbability, confidence, hasSufficientSample) ==
    /\ modelProbability >= THRESHOLDS.MIN_PROB_FOR_LEAN
    /\ confidence >= THRESHOLDS.MIN_CONFIDENCE_VALUE
    /\ hasSufficientSample

\* classifyBet (1546-1660).  reasons holds the kinds of the lines pushed.
ClassifyBet(modelProbability, bookOdds, propType, confidence, gamesPlayed) ==
    LET propThresholds == PROP_THRESHOLDS(propType)
        hasSufficientSample == gamesPlayed >= propThresholds.minGamesPlayed
        result0 == [classification |-> "none", edgeNum |-> 0, edgeDen |-> 1,
                    modelProbability |-> modelProbability,
                    bookProbability |-> [num |-> 0, den |-> 1],
                    bookOdds |-> bookOdds, confidence |-> confidence,
                    gamesPlayed |-> gamesPlayed,
                    reasons |-> IF hasSufficientSample THEN {} ELSE {"low_sample"},
                    kellyFraction |-> 0]
    IN
    IF bookOdds = NoOdds
    THEN IF LeanWithoutOdds(modelProbability, confidence, hasSufficientSample)
         THEN [Classified(result0, "lean") EXCEPT
                  !.reasons = @ \cup {"high_probability", "no_book_odds"}]
         ELSE result0
    ELSE
    LET book == AmericanToImpliedProb(bookOdds)
        result1 == [result0 EXCEPT !.bookProbability = book,
                                   !.edgeNum = modelProbability * book.den - 1000 * book.num,
                                   !.edgeDen = book.den]
        result2 == IF EdgeSuspicious(result1)
                   THEN [result1 EXCEPT !.reasons = @ \cup {"edge_unusually_high"}]
                   ELSE result1
        hasMinEdgeBest == EdgeAtLeast(result2, propThresholds.minEdgeBest)
        hasMinEdgeStrong == EdgeAtLeast(result2, propThresholds.minEdgeStrong)
        hasMinEdgeValue == EdgeAtLeast(result2, propThresholds.minEdgeValue)
        hasHighConfidence == confidence >= THRESHOLDS.MIN_CONFIDENCE_BEST
        hasMedConfidence == confidence >= THRESHOLDS.MIN_CONFIDENCE_STRONG
        hasMinConfidence == confidence >= THRESHOLDS.MIN_CONFIDENCE_VALUE
        isHighProb == modelProbability >= THRESHOLDS.MIN_PROB_FOR_BEST
        result3 ==
            IF hasMinEdgeBest /\ hasHighConfidence /\ hasSufficientSample
            THEN [Classified(result2, "best_bet") EXCEPT
                     !.reasons = @ \cup {"best_bet", "confidence", "ev"}
                                   \cup (IF isHighProb THEN {"strong_probability"} ELSE {})]
            ELSE IF hasMinEdgeStrong /\ hasMedConfidence /\ hasSufficientSample
            THEN [Classified(result2, "strong_value") EXCEPT
                     !.reasons = @ \cup {"strong_value", "confidence", "ev"}]
            ELSE IF hasMinEdgeValue /\ hasMinConfidence /\ hasSufficientSample
            THEN [Classified(result2, "value") EXCEPT !.reasons = @ \cup {"value", "ev"}]
            ELSE IF isHighProb /\ hasMinConfidence /\ result2.edgeNum > 0
            THEN [Classified(result2, "lean") EXCEPT !.reasons = @ \cup {"lean", "small_edge"}]
            ELSE result2
    IN IF propThresholds.varianceLevel = "high" /\ result3.classification # "none"
       THEN [result3 EXCEPT !.reasons = @ \cup {"high_variance"}]
       ELSE result3

\* The order none < lean < value < strong_value < best_bet of BetClassification
TierRank(classification) ==
    CASE classification = "best_bet" -> 4
      [] classification = "strong_value" -> 3
      [] classification = "value" -> 2
      [] classification = "lean" -> 1
      [] OTHER -> 0

\* The arguments classifyBet is called with.  No edge they produce falls exactly
\* on a threshold, where the rounding of the source's doubles would decide.
BetProbabilities == {455, 520, 560, 620, 710}
BetOdds == {NoOdds, -150, -110, 130, 150}
BetPropTypes == {"shots", "points", "goalscorer"}
BetConfidences == {40, 70, 80}
BetGamesPlayed == {12, 35}

NoBet == [called |-> FALSE, propType |-> "shots",
          result |-> ClassifyBet(0, NoOdds, "shots", 0, 0)]
NoBetOrder == [related |-> FALSE, sameProbability |-> FALSE, edgeLeq |-> FALSE,
               tierLeq |-> FALSE, tierLt |-> FALSE]

\* a.edge <= b.edge, both exact fractions with positive denominators
EdgeLeq(a, b) == a.edgeNum * b.edgeDen <= b.edgeNum * a.edgeDen

\* How call `next` compares with call `prev`: related when both had a market
\* quote and the same prop type, confidence and games played.
BetOrderOf(prev, next) ==
    [related |-> /\ prev.called /\ prev.result.bookOdds # NoOdds
                 /\ next.result.bookOdds # NoOdds
                 /\ prev.propType = next.propType
                 /\ prev.result.confidence = next.result.confidence
                 /\ prev.result.gamesPlayed = next.result.gamesPlayed,
     sameProbability |-> prev.result.modelProbability = next.result.modelProbability,
     edgeLeq |-> EdgeLeq(prev.result, next.result),
     tierLeq |-> TierRank(prev.result.classification) <= TierRank(next.result.classification),
     tierLt |-> TierRank(prev.result.classification) < TierRank(next.result.classification)]

InitBet ==
    /\ bet = NoBet
    /\ betOrder = NoBetOrder

\* Every call classifyBet can be made with here, with what it returns
BetCalls ==
    { [called |-> TRUE, propType |-> propType,
       result |-> ClassifyBet(modelProbability, bookOdds, propType, confidence, gamesPlayed)] :
          <<modelProbability, bookOdds, propType, confidence, gamesPlayed>> \in
              BetProbabilities \X BetOdds \X BetPropTypes \X BetConfidences \X BetGamesPlayed }

\* The calls of the scenario: probability 0.60 against an even-money quote, on
\* the prop types whose best-tier edge is 8%, with confidence and sample at and
\* above their gates
ScenarioCalls ==
    { [called |-> TRUE, propType |-> propType,
       result |-> ClassifyBet(600, bookOdds, propType, confidence, gamesPlayed)] :
          <<bookOdds, propType, confidence, gamesPlayed>> \in
              {100, -100} \X {"points", "assists"} \X {75, 90} \X {20, 35} }

ClassifyBetCall ==
    /\ \E next \in BetCalls \cup ScenarioCalls :
        /\ bet' = next
        /\ betOrder' = BetOrderOf(bet, next)
    /\ UNCHANGED <<clockVars, oddsVars, statsVars, validateVars, refreshVars, impactVars,
                   timeoutVars, forecastVars, lateVars>>

----------------------------------------------------------------------------
(* External requests and their timeouts: injury-service.ts 322-387,        *)
(* 392-525, 594-616, 799-901; part_006 712-788.  A request is pending at   *)
(* an await of fetch; it ends when the upstream answers, or when the abort *)
(* signal the request carries fires.                                       *)

Upstreams == {"espn", "odds", "nhl"}

\* Whether the fetch of each request is given an abort signal
HasTimeout(request) ==
    CASE request = "espnTeams" -> FALSE       \* injury-service.ts 326-328
      [] request = "espnInjuries" -> FALSE    \* 346-349
      [] request = "oddsEvents" -> FALSE      \* 422
      [] request = "oddsProps" -> FALSE       \* 483-485
      [] request = "clubStats" -> FALSE       \* 596
      [] request = "gameLog" -> TRUE          \* part_006 712-719, 757
      [] OTHER -> FALSE

UpstreamOf(request) ==
    CASE request \in {"espnTeams", "espnInjuries"} -> "espn"
      [] request \in {"oddsEvents", "oddsProps"} -> "odds"
      [] OTHER -> "nhl"

\* The teams with injuries whose impact a run computes one after the other (868-877)
TeamsWithInjuries == 2

NoRun == [phase |-> "idle", espn |-> "idle", odds |-> "idle", stats |-> "idle", teamsLeft |-> 0]

InitTimeout ==
    /\ silent \in SUBSET Upstreams
    /\ run = NoRun
    /\ logsCall = "idle"

IdleTimeout ==
    /\ silent = {}
    /\ run = NoRun
    /\ logsCall = "idle"

\* A pending request ends: the upstream answers, or its abort signal fires
RequestEnds(request) == UpstreamOf(request) \notin silent \/ HasTimeout(request)

\* refreshInjuryCache starts both fetches of Promise.all (806-809)
RefreshStarts ==
    /\ run.phase = "idle"
    /\ run' = [run EXCEPT !.phase = "step1", !.espn = "espnTeams", !.odds = "oddsEvents"]
    /\ UNCHANGED <<clockVars, oddsVars, statsVars, validateVars, refreshVars, impactVars,
                   betVars, silent, logsCall, forecastVars, lateVars>>

\* fetchESPNInjuries: the teams request, then the injuries requests (326-379);
\* a failed request ends the fetch with what it has (330, 382-384)
EspnRequestEnds ==
    /\ run.espn \in {"espnTeams", "espnInjuries"}
    /\ RequestEnds(run.espn)
    /\ \E ok \in BOOLEAN :
        run' = [run EXCEPT !.espn = IF ok /\ run.espn = "espnTeams" THEN "espnInjuries"
                                    ELSE "done"]
    /\ UNCHANGED <<clockVars, oddsVars, statsVars, validateVars, refreshVars, impactVars,
                   betVars, silent, logsCall, forecastVars, lateVars>>

\* fetchPlayersWithProps: the events request, then the props requests (422-515)
OddsRequestEnds ==
    /\ run.odds \in {"oddsEvents", "oddsProps"}
    /\ RequestEnds(run.odds)
    /\ \E ok \in BOOLEAN :
        run' = [run EXCEPT !.odds = IF ok /\ run.odds = "oddsEvents" THEN "oddsProps"
                                    ELSE "done"]
    /\ UNCHANGED <<clockVars, oddsVars, statsVars, validateVars, refreshVars, impactVars,
                   betVars, silent, logsCall, forecastVars, lateVars>>

\* Promise.all resolves; the impact loop asks for the first team's club stats
\* (806-809, 868-877, 620, 596)
BothFetched ==
    /\ run.phase = "step1" /\ run.espn = "done" /\ run.odds = "done"
    /\ run' = [run EXCEPT !.phase = "impacts", !.stats = "clubStats",
                          !.teamsLeft = TeamsWithInjuries]
    /\ UNCHANGED <<clockVars, oddsVars, statsVars, validateVars, refreshVars, impactVars,
                   betVars, silent, logsCall, forecastVars, lateVars>>

\* fetchTeamPlayerStats ends, for one team after the other; after the last one
\* the cache is written and refreshInjuryCache returns (596-616, 879-900)
ClubStatsRequestEnds ==
    /\ run.phase = "impacts" /\ run.stats = "clubStats"
    /\ RequestEnds(run.stats)
    /\ run' = IF run.teamsLeft > 1
              THEN [run EXCEPT !.teamsLeft = @ - 1]
              ELSE [run EXCEPT !.teamsLeft = 0, !.stats = "done", !.phase = "returned"]
    /\ UNCHANGED <<clockVars, oddsVars, statsVars, validateVars, refreshVars, impactVars,
                   betVars, silent, logsCall, forecastVars, lateVars>>

\* fetchPlayerGameLogs asks through fetchWithTimeout (part_006 757)
GameLogsStarts ==
    /\ logsCall = "idle"
    /\ logsCall' = "gameLog"
    /\ UNCHANGED <<clockVars, oddsVars, statsVars, validateVars, refreshVars, impactVars,
                   betVars, silent, run, forecastVars, lateVars>>

\* the answer or the abort ends it, and fetchPlayerGameLogs returns (758-787)
GameLogsRequestEnds ==
    /\ logsCall = "gameLog"
    /\ RequestEnds(logsCall)
    /\ logsCall' = "returned"
    /\ UNCHANGED <<clockVars, oddsVars, statsVars, validateVars, refreshVars, impactVars,
                   betVars, silent, run, forecastVars, lateVars>>

----------------------------------------------------------------------------
(* Prop forecasts: part_006 642-692, 857-1575.  Rates, expected values,    *)
(* multipliers, probabilities and confidence are fixed-point integers in   *)
(* ten-thousandths (SCALE); power-play time is in ten-thousandths of a     *)
(* minute.  A product is rounded down to the next ten-thousandth.          *)

SCALE == 10000

\* a * b and a / b of two fixed-point numbers
Mul(a, b) == (a * b) \div SCALE
Div(a, b) == (a * SCALE) \div b

\* Math.sqrt of a fixed-point number: the largest r with r * r <= SCALE * x
RECURSIVE SqrtIter(_, _, _)
SqrtIter(n, lo, hi) ==
    IF lo >= hi THEN lo
    ELSE LET mid == (lo + hi + 1) \div 2
         IN IF mid * mid <= n THEN SqrtIter(n, mid, hi) ELSE SqrtIter(n, lo, mid - 1)

Sqrt(x) == 10 * SqrtIter(100 * x, 0, 46000)

\* e^(-f) for 0 <= f < 1 by the terms of its series, from term k on
RECURSIVE ExpSeries(_, _)
ExpSeries(f, k) ==
    IF k > 10 THEN SCALE ELSE SCALE - ((f * ExpSeries(f, k + 1)) \div (k * SCALE))

\* e^(-a) for a whole number a
ExpNegWhole(a) ==
    CASE a = 0 -> 10000 [] a = 1 -> 3679 [] a = 2 -> 1353 [] a = 3 -> 498
      [] a = 4 -> 183 [] a = 5 -> 67 [] a = 6 -> 25 [] a = 7 -> 9
      [] a = 8 -> 3 [] a = 9 -> 1 [] OTHER -> 0

\* Math.exp(-x) for x >= 0
ExpNeg(x) == Mul(ExpNegWhole(x \div SCALE), ExpSeries(x % SCALE, 1))

Abs(x) == IF x < 0 THEN -x ELSE x

\* normalCDF (1283-1298): the polynomial approximation of the error function
NormalCDF(z) ==
    LET sign == IF z < 0 THEN -1 ELSE 1
        \* beyond 10 standard deviations Math.exp(-z * z) is 0 at this resolution
        x == (Min(Abs(z), 10 * SCALE) * 7071) \div SCALE
        t == Div(SCALE, SCALE + Mul(3276, x))
        poly == Mul(Mul(Mul(Mul(Mul(10614, t) - 14532, t) + 14214, t) - 2845, t) + 2548, t)
        tail == IF x >= 30000 THEN 0 ELSE ExpNeg(Mul(x, x))
        y == SCALE - Mul(poly, tail)
    IN (SCALE + sign * y) \div 2

\* part_006 669-692
LEAGUE_AVG_SAVE_PCT == 9050
LEAGUE_AVG_GOALS_AGAINST == 30000
MIN_GAMES_FOR_PREDICTION == 15
RECENT_GAMES_WINDOW == 5

ForecastPropTypes == {"goalscorer", "shots", "assists", "points"}

QUALITY_THRESHOLDS(propType) ==
    CASE propType = "goalscorer" -> 1500
      [] propType = "shots" -> 15000
      [] propType = "assists" -> 1500
      [] OTHER -> 2500

DEFAULT_LINES(propType) == IF propType = "shots" THEN 25000 ELSE 5000

\* RECENT_WEIGHT and SEASON_WEIGHT (691-692), in tenths
RECENT_WEIGHT == 6
SEASON_WEIGHT == 4

\* The weighted base rate (925-927, 1014-1016, 1090-1092, 1172-1174)
BaseRate_WeightsSwapped(recentRate, seasonRate) ==
    (SEASON_WEIGHT * recentRate + RECENT_WEIGHT * seasonRate) \div 10
BaseRate(recentRate, seasonRate) ==
    (RECENT_WEIGHT * recentRate + SEASON_WEIGHT * seasonRate) \div 10

\* One entry of a game log (PlayerGameLog); ppToi in seconds
GameLog(goals, assists, shots, ppToi) ==
    [goals |-> goals, assists |-> assists, points |-> goals + assists, shots |-> shots,
     ppToi |-> ppToi]

RECURSIVE SumOf(_, _)
SumOf(logs, field) ==
    IF logs = <<>> THEN 0 ELSE Head(logs)[field] + SumOf(Tail(logs), field)

\* gameLogs.slice(0, RECENT_GAMES_WINDOW)
RecentOf(gameLogs) ==
    SubSeq(gameLogs, 1, IF Len(gameLogs) < RECENT_GAMES_WINDOW THEN Len(gameLogs)
                        ELSE RECENT_GAMES_WINDOW)

\* a per-game rate total / games
PerGame(total, games) == (total * SCALE) \div games

NoStats == [isNull |-> TRUE, gamesPlayed |-> 0,
            seasonGoalsPerGame |-> 0, seasonAssistsPerGame |-> 0, seasonPointsPerGame |-> 0,
            seasonShotsPerGame |-> 0, seasonPPTimePerGame |-> 0,
            recentGoalsPerGame |-> 0, recentAssistsPerGame |-> 0, recentPointsPerGame |-> 0,
            recentShotsPerGame |-> 0, recentPPTimePerGame |-> 0, recentGames |-> 0]

\* the sample-size gate of calculatePlayerStats (864-866)
TooFewGames_WindowOnly(gameLogs) == Len(gameLogs) < RECENT_GAMES_WINDOW
TooFewGames(gameLogs) == Len(gameLogs) < MIN_GAMES_FOR_PREDICTION

\* calculatePlayerStats (857-911)
CalculatePlayerStats(gameLogs) ==
    IF TooFewGames(gameLogs) THEN NoStats
    ELSE
    LET gamesPlayed == Len(gameLogs)
        recentGames == RecentOf(gameLogs)
        n == Len(recentGames)
    IN [isNull |-> FALSE, gamesPlayed |-> gamesPlayed,
        seasonGoalsPerGame |-> PerGame(SumOf(gameLogs, "goals"), gamesPlayed),
        seasonAssistsPerGame |-> PerGame(SumOf(gameLogs, "assists"), gamesPlayed),
        seasonPointsPerGame |-> PerGame(SumOf(gameLogs, "points"), gamesPlayed),
        seasonShotsPerGame |-> PerGame(SumOf(gameLogs, "shots"), gamesPlayed),
        seasonPPTimePerGame |-> PerGame(SumOf(gameLogs, "ppToi"), gamesPlayed * 60),
        recentGoalsPerGame |-> PerGame(SumOf(recentGames, "goals"), n),
        recentAssistsPerGame |-> PerGame(SumOf(recentGames, "assists"), n),
        recentPointsPerGame |-> PerGame(SumOf(recentGames, "points"), n),
        recentShotsPerGame |-> PerGame(SumOf(recentGames, "shots"), n),
        recentPPTimePerGame |-> PerGame(SumOf(recentGames, "ppToi"), n * 60),
        recentGames |-> n]

\* 0.7 + 0.3 * min(1.3, max(0.7, ratio)) and its like: the trend of a recent rate
\* against the season rate, kept within spread of 1 and weighted by spread
TrendMultiplier(recentRate, seasonRate, spread) ==
    IF seasonRate > 0 /\ recentRate > 0
    THEN (SCALE - spread)
            + Mul(spread, Clamp(SCALE - spread, SCALE + spread, Div(recentRate, seasonRate)))
    ELSE SCALE

\* the power-play boost by the mean of recent and season power-play time
PpBoost(player, pp1, pp2) ==
    LET avgPPTime == (player.recentPPTimePerGame + player.seasonPPTimePerGame) \div 2
    IN IF avgPPTime >= 40000 THEN pp1 ELSE IF avgPPTime >= 25000 THEN pp2 ELSE SCALE

\* 1 + goalieDiff * k, kept within lo and hi; k in tenths
GoalieAdjustment(matchup, k, lo, hi) ==
    Clamp(lo, hi, SCALE + (k * (LEAGUE_AVG_SAVE_PCT - matchup.oppGoalieSavePct)) \div 10)

\* the fixed adjustment for a porous or a tight defense
DefenseStep(matchup, weak, strong) ==
    IF matchup.oppGoalsAgainstPerGame > 33000 THEN weak
    ELSE IF matchup.oppGoalsAgainstPerGame < 27000 THEN strong
    ELSE SCALE

Factors(base, form, pp, goalie, homeAway, defense) ==
    [baseGoalsPerGame |-> base, recentFormMultiplier |-> form, ppBoost |-> pp,
     goalieAdjustment |-> goalie, homeAwayAdjustment |-> homeAway,
     defenseAdjustment |-> defense]

\* base * the five factors, in the order of the source, and Math.max(0, ...)
Expected(f) ==
    Max(0, Mul(Mul(Mul(Mul(Mul(f.baseGoalsPerGame, f.recentFormMultiplier), f.ppBoost),
                       f.goalieAdjustment), f.homeAwayAdjustment), f.defenseAdjustment))

\* calculateExpectedGoals (918-1001)
CalculateExpectedGoals(player, matchup) ==
    LET f == Factors(BaseRate(player.recentGoalsPerGame, player.seasonGoalsPerGame),
                     TrendMultiplier(player.recentShotsPerGame, player.seasonShotsPerGame, 3000),
                     PpBoost(player, 12000, 11000),
                     GoalieAdjustment(matchup, 30, 8000, 12500),
                     IF matchup.isHome THEN 10500 ELSE 9500,
                     IF matchup.oppGoalsAgainstPerGame > 0
                     THEN Clamp(8500, 12000,
                                Div(matchup.oppGoalsAgainstPerGame, LEAGUE_AVG_GOALS_AGAINST))
                     ELSE SCALE)
    IN [expected |-> Expected(f), factors |-> f]

\* calculateExpectedShots (1007-1077)
CalculateExpectedShots(player, matchup) ==
    LET f == Factors(BaseRate(player.recentShotsPerGame, player.seasonShotsPerGame),
                     TrendMultiplier(player.recentShotsPerGame, player.seasonShotsPerGame, 2000),
                     PpBoost(player, 11500, 10800),
                     SCALE,
                     IF matchup.isHome THEN 10300 ELSE 9700,
                     DefenseStep(matchup, 10500, 9500))
    IN [expected |-> Expected(f), factors |-> f]

\* calculateExpectedAssists (1083-1159)
CalculateExpectedAssists(player, matchup) ==
    LET f == Factors(BaseRate(player.recentAssistsPerGame, player.seasonAssistsPerGame),
                     TrendMultiplier(player.recentPointsPerGame, player.seasonPointsPerGame, 2500),
                     PpBoost(player, 12500, 11200),
                     GoalieAdjustment(matchup, 20, 8500, 12000),
                     IF matchup.isHome THEN 10400 ELSE 9600,
                     DefenseStep(matchup, 11500, 8800))
    IN [expected |-> Expected(f), factors |-> f]

\* calculateExpectedPoints (1165-1243)
CalculateExpectedPoints(player, matchup) ==
    LET f == Factors(BaseRate(player.recentPointsPerGame, player.seasonPointsPerGame),
                     TrendMultiplier(player.recentPointsPerGame, player.seasonPointsPerGame, 2500),
                     PpBoost(player, 12200, 11100),
                     GoalieAdjustment(matchup, 25, 8500, 12000),
                     IF matchup.isHome THEN 10500 ELSE 9500,
                     DefenseStep(matchup, 11800, 8500))
    IN [expected |-> Expected(f), factors |-> f]

RECURSIVE Factorial(_)
Factorial(n) == IF n <= 1 THEN 1 ELSE n * Factorial(n - 1)

RECURSIVE Power(_, _)
Power(x, k) == IF k = 0 THEN SCALE ELSE Mul(x, Power(x, k - 1))

\* the sum of the Poisson terms 0 .. k (1274-1278)
RECURSIVE PoissonCumulative(_, _)
PoissonCumulative(expected, k) ==
    IF k < 0 THEN 0
    ELSE Mul(Power(expected, k), ExpNeg(expected)) \div Factorial(k)
            + PoissonCumulative(expected, k - 1)

\* goalProbability (1251-1253)
GoalProbability(lambda) == SCALE - ExpNeg(lambda)

CalculateProbability_PoissonSumOnly(expected, line, propType) ==
    Clamp(100, 9900, SCALE - PoissonCumulative(expected, line \div SCALE))

\* calculateProbability (1260-1281)
CalculateProbability(expected, line, propType) ==
    IF propType = "shots"
    THEN LET stdDev == (Sqrt(expected) * 8) \div 10
         IN IF stdDev = 0 THEN (IF expected > line THEN 9900 ELSE 100)
            ELSE Clamp(100, 9900, SCALE - NormalCDF(Div(line - expected, stdDev)))
    ELSE IF line = 5000 THEN SCALE - ExpNeg(expected)
    ELSE Clamp(100, 9900, SCALE - PoissonCumulative(expected, line \div SCALE))

\* the season rate the quality filter and the confidence look at (1321-1326, 1374-1379)
ProductionOf(player, propType) ==
    CASE propType = "goalscorer" -> player.seasonGoalsPerGame
      [] propType = "shots" -> player.seasonShotsPerGame
      [] propType = "assists" -> player.seasonAssistsPerGame
      [] OTHER -> player.seasonPointsPerGame

\* Math.min(0.95, confidence) (1342)
CapConfidence(confidence) == Min(9500, confidence)

\* the sample-size bonus (1314-1316)
SampleBonus_Flat(gamesPlayed) ==
    IF gamesPlayed >= MIN_GAMES_FOR_PREDICTION THEN 500 ELSE 0
SampleBonus(gamesPlayed) ==
    IF gamesPlayed >= 40 THEN 1500
    ELSE IF gamesPlayed >= 25 THEN 1000
    ELSE IF gamesPlayed >= MIN_GAMES_FOR_PREDICTION THEN 500
    ELSE 0

\* calculateConfidence (1310-1343)
CalculateConfidence(player, propType) ==
    LET sampleBonus == SampleBonus(player.gamesPlayed)
        threshold == QUALITY_THRESHOLDS(propType)
        production == ProductionOf(player, propType)
        productionBonus == IF production >= threshold * 3 THEN 1500
                           ELSE IF production >= threshold * 2 THEN 1000
                           ELSE IF production >= threshold THEN 500
                           ELSE 0
        shotVolumeBonus == IF player.seasonShotsPerGame >= 40000 THEN 1000
                           ELSE IF player.seasonShotsPerGame >= 30000 THEN 500
                           ELSE 0
        formBonus == IF /\ player.recentGames >= 5
                        /\ Abs(player.recentGoalsPerGame - player.seasonGoalsPerGame) < 1000
                     THEN 500 ELSE 0
    IN CapConfidence(5000 + sampleBonus + productionBonus + shotVolumeBonus + formBonus)

\* the quality filter (1380, 1502)
BelowQuality_NeverBelow(player, propType) == FALSE
BelowQuality(player, propType) == ProductionOf(player, propType) < QUALITY_THRESHOLDS(propType)

\* what fetchTeamDefense returned: null, or a TeamDefense
NoDefense == [isNull |-> TRUE, goalsAgainstPerGame |-> 0, savePct |-> 0]
TeamDefense(goalsAgainstPerGame, savePct) ==
    [isNull |-> FALSE, goalsAgainstPerGame |-> goalsAgainstPerGame, savePct |-> savePct]

\* MatchupData (1385-1390, 1505-1510): `||` replaces null and 0 by the league average
MatchupOf(oppDefense, isHome) ==
    [oppGoalsAgainstPerGame |-> IF oppDefense.isNull \/ oppDefense.goalsAgainstPerGame = 0
                                THEN LEAGUE_AVG_GOALS_AGAINST
                                ELSE oppDefense.goalsAgainstPerGame,
     oppGoalieSavePct |-> IF oppDefense.isNull \/ oppDefense.savePct = 0
                          THEN LEAGUE_AVG_SAVE_PCT ELSE oppDefense.savePct,
     isHome |-> isHome]

\* predictPlayerProp returned null
NoPrediction == [isNull |-> TRUE]

\* predictPlayerProp (1350-1445) and the body of the batch of predictMultiplePlayers
\* (1481-1568), after the fetches
PredictionOf(playerId, gameLogs, oppDefense, isHome, propType) ==
    LET playerStats == CalculatePlayerStats(gameLogs) IN
    IF playerStats.isNull THEN NoPrediction
    ELSE IF BelowQuality(playerStats, propType) THEN NoPrediction
    ELSE
    LET matchup == MatchupOf(oppDefense, isHome)
        goalsResult == CalculateExpectedGoals(playerStats, matchup)
        shotsResult == CalculateExpectedShots(playerStats, matchup)
        assistsResult == CalculateExpectedAssists(playerStats, matchup)
        pointsResult == CalculateExpectedPoints(playerStats, matchup)
        relevantResult == CASE propType = "goalscorer" -> goalsResult
                            [] propType = "shots" -> shotsResult
                            [] propType = "assists" -> assistsResult
                            [] OTHER -> pointsResult
    IN [isNull |-> FALSE, playerId |-> playerId, propType |-> propType,
        expectedGoals |-> goalsResult.expected, expectedShots |-> shotsResult.expected,
        expectedAssists |-> assistsResult.expected, expectedPoints |-> pointsResult.expected,
        expectedValue |-> relevantResult.expected,
        probability |-> CalculateProbability(relevantResult.expected,
                                             DEFAULT_LINES(propType), propType),
        confidence |-> CalculateConfidence(playerStats, propType),
        gamesPlayed |-> playerStats.gamesPlayed,
        factors |-> relevantResult.factors]

\* batchResults.filter(r => r !== null) (1571)
RECURSIVE NotNull(_)
NotNull(results) ==
    IF results = <<>> THEN <<>>
    ELSE IF Head(results).isNull THEN NotNull(Tail(results))
    ELSE <<Head(results)>> \o NotNull(Tail(results))

\* Games of a log: a quiet one, one with a shot, one with an assist, one with a
\* goal, one with a goal and an assist
QuietGame == GameLog(0, 0, 0, 0)
ShotGame == GameLog(0, 0, 1, 0)
AssistGame == GameLog(0, 1, 2, 150)
GoalGame == GameLog(1, 0, 4, 270)
BigGame == GameLog(1, 1, 5, 270)

\* a log of n games, newest first: the recent five, then the older ones in a cycle
LogOf(n, recent, older) ==
    [i \in 1..n |-> IF i <= Len(recent) THEN recent[i]
                    ELSE older[((i - Len(recent) - 1) % Len(older)) + 1]]

\* The game logs fetchPlayerGameLogs can return for a player: none (the fetch
\* failed), one game short of the minimum, and seasons of several lengths and rates
GameLogsOfPlayer ==
    << <<>>,
       LogOf(14, <<BigGame, GoalGame, AssistGame, ShotGame, BigGame>>, <<GoalGame, AssistGame>>),
       LogOf(15, <<BigGame, GoalGame, AssistGame, ShotGame, BigGame>>, <<GoalGame, AssistGame>>),
       LogOf(20, <<QuietGame, QuietGame, QuietGame, QuietGame, QuietGame>>, <<QuietGame>>),
       LogOf(25, <<AssistGame, ShotGame, AssistGame, ShotGame, ShotGame>>,
             <<ShotGame, AssistGame, ShotGame, ShotGame>>),
       LogOf(40, <<BigGame, GoalGame, BigGame, AssistGame, GoalGame>>,
             <<GoalGame, AssistGame, BigGame, ShotGame>>),
       LogOf(20, <<GoalGame, ShotGame, ShotGame, ShotGame, ShotGame>>,
             <<GoalGame, ShotGame, ShotGame, ShotGame, ShotGame, ShotGame, ShotGame, ShotGame>>),
       LogOf(20, <<AssistGame, AssistGame, ShotGame, AssistGame, ShotGame>>,
             <<GoalGame, ShotGame, ShotGame, ShotGame, ShotGame, ShotGame, ShotGame, ShotGame,
               ShotGame, ShotGame, ShotGame, ShotGame, ShotGame, ShotGame, ShotGame>>) >>

\* what fetchTeamDefense can return for the opponent
DefenseAnswers ==
    {NoDefense, TeamDefense(0, 0), TeamDefense(35000, 8900), TeamDefense(25000, 9200)}

\* PlayerStats handed to calculateExpectedGoals directly
StatsWith(recentGoals, seasonGoals, recentShots, seasonShots, ppTime) ==
    [NoStats EXCEPT !.isNull = FALSE, !.gamesPlayed = 20, !.recentGames = 5,
                    !.recentGoalsPerGame = recentGoals, !.seasonGoalsPerGame = seasonGoals,
                    !.recentShotsPerGame = recentShots, !.seasonShotsPerGame = seasonShots,
                    !.recentPPTimePerGame = ppTime, !.seasonPPTimePerGame = ppTime]

DirectStats ==
    {StatsWith(5000, 3000, 25000, 25000, 0), StatsWith(5000, 3000, 40000, 25000, 0),
     StatsWith(5000, 3000, 25000, 25000, 45000), StatsWith(2000, 4000, 30000, 30000, 0),
     StatsWith(0, 0, 0, 0, 0)}

\* How the NHL API answers a request: fetchWithTimeout gives null ("timeout"), a
\* response that is not ok ("error"), a body that is not JSON ("throw"), a JSON
\* body of another shape ("badShape": gameLog or goalies is no array, or holds a
\* null), a body without the list ("noList"), or the expected body ("ok").
UpstreamResponses == {"ok", "timeout", "error", "throw", "badShape", "noList"}

\* the try block of fetchPlayerGameLogs (756-783): res.json() and games.map throw
GameLogsTried(response, gameLogs) ==
    CASE response \in {"timeout", "error"} -> [threw |-> FALSE, gameLogs |-> <<>>]
      [] response \in {"throw", "badShape"} -> [threw |-> TRUE, gameLogs |-> <<>>]
      [] response = "noList" -> [threw |-> FALSE, gameLogs |-> <<>>]
      [] OTHER -> [threw |-> FALSE, gameLogs |-> gameLogs]

\* fetchPlayerGameLogs on an empty cache (746-788): the catch returns []
GameLogsFetched_NoCatch(response, gameLogs) == GameLogsTried(response, gameLogs)
GameLogsFetched(response, gameLogs) ==
    IF GameLogsTried(response, gameLogs).threw
    THEN [threw |-> FALSE, gameLogs |-> <<>>]
    ELSE GameLogsTried(response, gameLogs)

\* fetchTeamDefense on an empty cache (794-840): null on a failure and from the
\* catch, the league averages for a body without goalies
DefenseFetched(response, teamDefense) ==
    CASE response \in {"timeout", "error", "throw", "badShape"} -> NoDefense
      [] response = "noList" -> TeamDefense(LEAGUE_AVG_GOALS_AGAINST, LEAGUE_AVG_SAVE_PCT)
      [] OTHER -> teamDefense

NoForecast == [kind |-> "none", requested |-> <<>>, results |-> <<>>, threw |-> FALSE,
               player |-> NoStats, lambda |-> 0, factors |-> Factors(0, 0, 0, 0, 0, 0),
               probability |-> 0, goalProbability |-> 0]

\* Expected values handed to the probability functions directly: 0.005 to 6.0
Lambdas == {50, 150, 1000, 3800, 4200, 6931, 10000, 15000, 23026, 30000, 46100, 60000}

InitForecast ==
    /\ fArgs \in [players : (DOMAIN GameLogsOfPlayer) \X (DOMAIN GameLogsOfPlayer),
                  oppDefense : DefenseAnswers, isHome : BOOLEAN, propType : ForecastPropTypes,
                  logsResponse : {<<"ok", "ok">>}, defenseResponse : {"ok"}]
    /\ forecast = NoForecast

\* A batch of two different players whose requests the NHL API answers in any way
InitBatch ==
    /\ fArgs \in [players : {<<3, 6>>, <<6, 2>>, <<5, 8>>},
                  oppDefense : {TeamDefense(35000, 8900)}, isHome : BOOLEAN,
                  propType : {"goalscorer", "shots"},
                  logsResponse : UpstreamResponses \X UpstreamResponses,
                  defenseResponse : UpstreamResponses]
    /\ forecast = NoForecast

IdleForecast ==
    /\ fArgs = [players |-> <<1, 1>>, oppDefense |-> NoDefense, isHome |-> TRUE,
                propType |-> "goalscorer", logsResponse |-> <<"ok", "ok">>,
                defenseResponse |-> "ok"]
    /\ forecast = NoForecast

\* predictPlayerProp for the first player (1350-1445); a null return is kept in
\* results, as the caller sees it
PredictPlayerProp ==
    /\ forecast.kind = "none"
    /\ forecast' = [NoForecast EXCEPT
           !.kind = "single",
           !.requested = <<fArgs.players[1]>>,
           !.results = <<PredictionOf(fArgs.players[1],
                                      GameLogsFetched(fArgs.logsResponse[1],
                                          GameLogsOfPlayer[fArgs.players[1]]).gameLogs,
                                      DefenseFetched(fArgs.defenseResponse, fArgs.oppDefense),
                                      fArgs.isHome, fArgs.propType)>>]
    /\ UNCHANGED <<clockVars, oddsVars, statsVars, validateVars, refreshVars, impactVars,
                   betVars, timeoutVars, fArgs, lateVars>>

\* predictMultiplePlayers for both players, who meet the same opponent (1452-1575);
\* a fetch that throws rejects Promise.all and with it the call
PredictMultiplePlayers ==
    /\ forecast.kind = "none"
    /\ LET fetched == [i \in 1..2 |-> GameLogsFetched(fArgs.logsResponse[i],
                                                      GameLogsOfPlayer[fArgs.players[i]])]
           oppDefense == DefenseFetched(fArgs.defenseResponse, fArgs.oppDefense)
       IN forecast' = IF \E i \in 1..2 : fetched[i].threw
                      THEN [NoForecast EXCEPT !.kind = "multiple", !.requested = fArgs.players,
                                              !.threw = TRUE]
                      ELSE [NoForecast EXCEPT
                               !.kind = "multiple",
                               !.requested = fArgs.players,
                               !.results = NotNull([i \in 1..2 |->
                                    PredictionOf(fArgs.players[i], fetched[i].gameLogs,
                                                 oppDefense, fArgs.isHome, fArgs.propType)])]
    /\ UNCHANGED <<clockVars, oddsVars, statsVars, validateVars, refreshVars, impactVars,
                   betVars, timeoutVars, fArgs, lateVars>>

\* calculateExpectedGoals on a PlayerStats and the matchup (918-1001)
CalculateExpectedGoalsCall ==
    /\ forecast.kind = "none"
    /\ \E player \in DirectStats :
        LET r == CalculateExpectedGoals(player, MatchupOf(fArgs.oppDefense, fArgs.isHome))
        IN forecast' = [NoForecast EXCEPT !.kind = "goals", !.player = player,
                                          !.lambda = r.expected, !.factors = r.factors]
    /\ UNCHANGED <<clockVars, oddsVars, statsVars, validateVars, refreshVars, impactVars,
                   betVars, timeoutVars, fArgs, lateVars>>

\* calculateProbability at the default line of the prop type, and goalProbability,
\* on the same expected value (1251-1281)
CalculateProbabilityCall ==
    /\ forecast.kind = "none"
    /\ \E lambda \in Lambdas :
        forecast' = [NoForecast EXCEPT
            !.kind = "probability", !.lambda = lambda,
            !.probability = CalculateProbability(lambda, DEFAULT_LINES(fArgs.propType),
                                                 fArgs.propType),
            !.goalProbability = GoalProbability(lambda)]
    /\ UNCHANGED <<clockVars, oddsVars, statsVars, validateVars, refreshVars, impactVars,
                   betVars, timeoutVars, fArgs, lateVars>>

----------------------------------------------------------------------------
(* The two cron handlers: cron/schedule/route.ts 36-175 and the refresh     *)
(* handler of games/route.ts 302-539.  Dates are day numbers.               *)

CalculateOptimalRefreshHour_NoFloor(firstGameHourET) ==
    Min(firstGameHourET - 3, Min(13, firstGameHourET - 1))

\* calculateOptimalRefreshHour (36-49)
CalculateOptimalRefreshHour(firstGameHourET) ==
    LET idealRefresh == firstGameHourET - 3
        minRefresh == 10
        maxRefresh == Min(13, firstGameHourET - 1)
    IN Max(minRefresh, Min(idealRefresh, maxRefresh))

\* The answer of the NHL schedule API: a failure, a day without games, or the
\* Eastern hour of the first game
ScheduleAnswers ==
    {[kind |-> "error", hourET |-> -1], [kind |-> "noGames", hourET |-> -1]}
    \cup {[kind |-> "games", hourET |-> h] : h \in 0..23}

\* scheduleCache = null
NoSchedule == [isNull |-> TRUE, date |-> 0, firstGameHourET |-> -1, targetRefreshHourET |-> 11]

\* GET of cron/schedule (51-170): the scheduleCache after the call, which is
\* also what the response carries
ScheduleGetResult(cache, today, answer) ==
    IF ~cache.isNull /\ cache.date = today THEN cache
    ELSE IF answer.kind = "games"
    THEN [isNull |-> FALSE, date |-> today, firstGameHourET |-> answer.hourET,
          targetRefreshHourET |-> CalculateOptimalRefreshHour(answer.hourET)]
    ELSE [isNull |-> FALSE, date |-> today, firstGameHourET |-> -1, targetRefreshHourET |-> 11]

\* lastRefresh = null
NoRefresh == [isNull |-> TRUE, date |-> 0, hour |-> 0, success |-> FALSE]

Idle(status) == [at |-> "idle", today |-> 0, currentHourET |-> 0, status |-> status]

\* Eastern hours at which the handlers are first looked at
StartHours == {9, 10, 12, 23}
MaxHours == 2

InitCron ==
    /\ et \in [date : {1}, hour : StartHours, passed : {0}]
    /\ nhlSchedule \in {a \in ScheduleAnswers : a.kind = "games" => a.hourET \in {13, 15, 19}}
    /\ scheduleCache = NoSchedule
    /\ lastRefresh = NoRefresh
    /\ getPc = [p \in Procs |-> Idle("none")]
    /\ refreshesStarted = <<>>

\* Only the schedule handler is under study
InitSchedule ==
    /\ et \in [date : {1}, hour : StartHours, passed : {0}]
    /\ nhlSchedule \in ScheduleAnswers
    /\ scheduleCache = NoSchedule
    /\ lastRefresh = NoRefresh
    /\ getPc = [p \in Procs |-> Idle("none")]
    /\ refreshesStarted = <<>>

IdleCron ==
    /\ et = [date |-> 1, hour |-> 9, passed |-> 0]
    /\ nhlSchedule = [kind |-> "noGames", hourET |-> -1]
    /\ scheduleCache = NoSchedule
    /\ lastRefresh = NoRefresh
    /\ getPc = [p \in Procs |-> Idle("none")]
    /\ refreshesStarted = <<>>

\* An hour passes; a new day has its own schedule
HourPasses ==
    /\ et.passed < MaxHours
    /\ et' = IF et.hour = 23
             THEN [date |-> et.date + 1, hour |-> 0, passed |-> et.passed + 1]
             ELSE [et EXCEPT !.hour = et.hour + 1, !.passed = et.passed + 1]
    /\ IF et.hour = 23
       THEN nhlSchedule' \in {a \in ScheduleAnswers : a.kind = "games" => a.hourET \in {13, 19}}
       ELSE nhlSchedule' = nhlSchedule
    /\ UNCHANGED <<coreVars, betVars, timeoutVars, forecastVars, rustVars, routeVars,
                   scheduleCache, lastRefresh, getPc, refreshesStarted>>

\* GET of cron/schedule, called by the daily cron (51-170)
ScheduleGet ==
    /\ scheduleCache' = ScheduleGetResult(scheduleCache, et.date, nhlSchedule)
    /\ scheduleCache' # scheduleCache
    /\ UNCHANGED <<coreVars, betVars, timeoutVars, forecastVars, rustVars, routeVars,
                   et, nhlSchedule, lastRefresh, getPc, refreshesStarted>>

\* GET of the refresh handler up to its first await (477-482)
GetStarts(p) ==
    /\ getPc[p].at = "idle"
    /\ getPc' = [getPc EXCEPT ![p] = [at |-> "schedule", today |-> et.date,
                                      currentHourET |-> et.hour, status |-> "none"]]
    /\ UNCHANGED <<coreVars, betVars, timeoutVars, forecastVars, rustVars, routeVars,
                   et, nhlSchedule, scheduleCache, lastRefresh, refreshesStarted>>

\* fetchScheduleCache answers (329-351: null when the schedule endpoint cannot be
\* reached or answers 500), and the handler runs on to a response or to the
\* await of the two refreshes (482-517)
GetChecks(p) ==
    /\ getPc[p].at = "schedule"
    /\ \E reached \in BOOLEAN :
        LET schedule == ScheduleGetResult(scheduleCache, et.date, nhlSchedule)
            targetHour == IF reached THEN schedule.targetRefreshHourET ELSE 11
            today == getPc[p].today
            currentHourET == getPc[p].currentHourET
        IN /\ scheduleCache' = IF reached THEN schedule ELSE scheduleCache
           /\ IF ~lastRefresh.isNull /\ lastRefresh.date = today
                  /\ lastRefresh.hour = currentHourET
              THEN /\ getPc' = [getPc EXCEPT ![p] = Idle("skipped")]
                   /\ UNCHANGED refreshesStarted
              ELSE IF currentHourET # targetHour
              THEN /\ getPc' = [getPc EXCEPT ![p] = Idle("waiting")]
                   /\ UNCHANGED refreshesStarted
              ELSE /\ getPc' = [getPc EXCEPT ![p].at = "refreshing"]
                   /\ refreshesStarted' = Append(refreshesStarted, <<today, currentHourET>>)
    /\ UNCHANGED <<coreVars, betVars, timeoutVars, forecastVars, rustVars, routeVars, et, nhlSchedule, lastRefresh>>

\* refreshOddsData and refreshInjuries are both done (517-537); neither throws
GetRefreshed(p) ==
    /\ getPc[p].at = "refreshing"
    /\ \E oddsSuccess, injurySuccess \in BOOLEAN :
        lastRefresh' = [isNull |-> FALSE, date |-> getPc[p].today,
                        hour |-> getPc[p].currentHourET,
                        success |-> oddsSuccess /\ injurySuccess]
    /\ getPc' = [getPc EXCEPT ![p] = Idle("refreshed")]
    /\ UNCHANGED <<coreVars, betVars, timeoutVars, forecastVars, rustVars, routeVars,
                   et, nhlSchedule, scheduleCache, refreshesStarted>>

----------------------------------------------------------------------------
(* Players back from injury: injury-service.ts 108-113, 159-165, 299-307,   *)
(* 1057-1061, 1082-1102.  Penalties are in hundredths.                      *)

\* The names trackReturningPlayer is called with
ReturningNames == {"Connor McDavid", "CONNOR MCDAVID", "Tim Stutzle", " Tim Stutzle ",
                   "Sam Bennett Jr."}

\* normalizePlayerName (299-307) on ReturningNames: lower case, the generation
\* suffix and the punctuation dropped, the ends trimmed
NormalizePlayerName(name) ==
    CASE name \in {"Connor McDavid", "CONNOR MCDAVID"} -> "connor mcdavid"
      [] name \in {"Tim Stutzle", " Tim Stutzle "} -> "tim stutzle"
      [] name = "Sam Bennett Jr." -> "sam bennett"

NormalizedNames == {NormalizePlayerName(n) : n \in ReturningNames}

\* RUST_PENALTY[gamesSinceReturn] || 0 (159-165, 1059, 1091)
RUST_PENALTY(gamesSinceReturn) ==
    CASE gamesSinceReturn = 1 -> 8
      [] gamesSinceReturn = 2 -> 6
      [] gamesSinceReturn = 3 -> 4
      [] gamesSinceReturn = 4 -> 2
      [] gamesSinceReturn = 5 -> 1
      [] OTHER -> 0

\* returningPlayers.get(name) = undefined
NotReturning == [isNull |-> TRUE, playerName |-> "", team |-> "", gamesSinceReturn |-> 0,
                 rustPenalty |-> 0]

TrackedEntry_NeverRemoved(existing, playerName, team) ==
    IF ~existing.isNull
    THEN [existing EXCEPT !.gamesSinceReturn = existing.gamesSinceReturn + 1,
                          !.rustPenalty = RUST_PENALTY(existing.gamesSinceReturn + 1)]
    ELSE [isNull |-> FALSE, playerName |-> playerName, team |-> team,
          gamesSinceReturn |-> 1, rustPenalty |-> RUST_PENALTY(1)]

\* The entry of a name after trackReturningPlayer (1085-1101)
TrackedEntry(existing, playerName, team) ==
    IF ~existing.isNull
    THEN (IF existing.gamesSinceReturn + 1 > 5
          THEN NotReturning
          ELSE [existing EXCEPT !.gamesSinceReturn = existing.gamesSinceReturn + 1,
                                !.rustPenalty = RUST_PENALTY(existing.gamesSinceReturn + 1)])
    ELSE [isNull |-> FALSE, playerName |-> playerName, team |-> team,
          gamesSinceReturn |-> 1, rustPenalty |-> RUST_PENALTY(1)]

\* The rust penalty getPlayerPropsAdjustment reads for a name (1057-1061)
RustPenaltyRead(normalizedName) ==
    LET returning == returningPlayers[normalizedName]
    IN IF ~returning.isNull /\ returning.gamesSinceReturn <= 5
       THEN RUST_PENALTY(returning.gamesSinceReturn) ELSE 0

NoTrack == [called |-> FALSE, normalized |-> "", existing |-> NotReturning]

InitRust ==
    /\ returningPlayers = [n \in NormalizedNames |-> NotReturning]
    /\ lastTrack = NoTrack

\* trackReturningPlayer(playerName, team) (1082-1102)
TrackReturningPlayer(playerName, team) ==
    LET normalized == NormalizePlayerName(playerName)
        existing == returningPlayers[normalized]
    IN /\ returningPlayers' =
              [returningPlayers EXCEPT ![normalized] = TrackedEntry(existing, playerName, team)]
       /\ lastTrack' = [called |-> TRUE, normalized |-> normalized, existing |-> existing]
       /\ UNCHANGED <<coreVars, betVars, timeoutVars, forecastVars, cronVars, routeVars>>

----------------------------------------------------------------------------
(* The player-props route: README.md 74-81, 207-222, 296-560.              *)

\* normalizePlayerName of the route (74-81) on ReturningNames: lower case, the
\* ends trimmed, the characters . ' - dropped
RouteNormalizePlayerName(name) ==
    CASE name \in {"Connor McDavid", "CONNOR MCDAVID"} -> "connor mcdavid"
      [] name \in {"Tim Stutzle", " Tim Stutzle "} -> "tim stutzle"
      [] name = "Sam Bennett Jr." -> "sam bennett jr"

\* new Map()
NoBookOdds == [n \in {} |-> NoOdds]

\* oddsCache = null
NoOddsCache == [isNull |-> TRUE, data |-> NoBookOdds]

FetchBookOdds_Quoted(cache) ==
    [n \in {"connor mcdavid"} |-> -110]

\* fetchBookOdds (212-222): the cached map, or an empty one; no request is made
FetchBookOdds(cache) ==
    IF ~cache.isNull THEN cache.data ELSE NoBookOdds

\* bookOdds.get(normalizedName) || null (452)
BookOddsValue(bookOdds, normalizedName) ==
    IF normalizedName \in DOMAIN bookOdds THEN bookOdds[normalizedName] ELSE NoOdds

\* .sort((a, b) => b.probability - a.probability) (505): stable, descending
RECURSIVE SortByProbability(_)
SortByProbability(predictions) ==
    IF predictions = <<>> THEN <<>>
    ELSE LET n == Len(predictions)
             last == predictions[n]
             sorted == SortByProbability(SubSeq(predictions, 1, n - 1))
             ahead == SelectSeq(sorted, LAMBDA q : q.probability >= last.probability)
             behind == SelectSeq(sorted, LAMBDA q : q.probability < last.probability)
         IN ahead \o <<last>> \o behind

\* What predictMultiplePlayers hands to step 8: probability in thousandths,
\* confidence in hundredths, expectedValue in ten-thousandths
PredictionResults ==
    [playerName : {"Connor McDavid", "Sam Bennett Jr."}, probability : {455, 710},
     confidence : {40, 80}, gamesPlayed : {12, 35}, expectedValue : {1000, 30000}]

\* One entry of `predictions` (449-503)
RoutePredictionOf(p, propType, bookOdds) ==
    LET bookOddsValue == BookOddsValue(bookOdds, RouteNormalizePlayerName(p.playerName))
        betAnalysis == ClassifyBet(p.probability, bookOddsValue, propType, p.confidence,
                                   p.gamesPlayed)
    IN [playerName |-> p.playerName, probability |-> p.probability,
        expectedValue |-> p.expectedValue, bookOdds |-> bookOddsValue,
        betClassification |-> betAnalysis.classification,
        kellyFraction |-> betAnalysis.kellyFraction]

NoResponse == [status |-> 0, propType |-> "", predictions |-> <<>>, bestBets |-> <<>>,
               strongValueBets |-> <<>>, leanBets |-> <<>>, allActionableBets |-> <<>>]

\* Steps 4 and 7-9 of GET (370, 441-513) on the results of step 6
PropsResponseOf(cache, predictionResults, propType) ==
    LET bookOdds == FetchBookOdds(cache)
        kept == SelectSeq(predictionResults,
                          LAMBDA p : p.expectedValue >= QUALITY_THRESHOLDS(propType))
        predictions == SortByProbability(
                           [i \in 1..Len(kept) |-> RoutePredictionOf(kept[i], propType, bookOdds)])
    IN [status |-> 200, propType |-> propType, predictions |-> predictions,
        bestBets |-> SelectSeq(predictions, LAMBDA p : p.betClassification = "best_bet"),
        strongValueBets |->
            SelectSeq(predictions, LAMBDA p : p.betClassification = "strong_value"),
        leanBets |-> SelectSeq(predictions, LAMBDA p : p.betClassification = "lean"),
        allActionableBets |-> SelectSeq(predictions, LAMBDA p : p.betClassification # "none")]

InitRoute ==
    /\ oddsCache = NoOddsCache
    /\ propsResponse = NoResponse

\* GET of the player-props route (296-560); a throw anywhere gives the 500 response
PropsGet ==
    /\ \E propType \in {"goalscorer", "shots", "assists", "points"},
          n \in 0..2, failed \in BOOLEAN :
        \E predictionResults \in [1..n -> PredictionResults] :
            propsResponse' = IF failed
                             THEN [NoResponse EXCEPT !.status = 500, !.propType = propType]
                             ELSE PropsResponseOf(oddsCache, predictionResults, propType)
    /\ UNCHANGED <<coreVars, betVars, timeoutVars, forecastVars, cronVars, rustVars, oddsCache>>

IdleLate == IdleCron /\ InitRust /\ InitRoute

\* The parts no call of a specification touches
IdleAnalysis == InitBet /\ IdleTimeout /\ IdleForecast /\ IdleLate

----------------------------------------------------------------------------
(* Specifications *)

Init == InitClock /\ InitOdds /\ InitStats /\ IdleValidate /\ InitRefresh /\ IdleImpact /\ IdleAnalysis

\* The Odds API props cache under a sequence of fetchPlayersWithProps calls.
NextOdds ==
    \/ Tick
    \/ FetchPlayersWithProps

Spec == Init /\ [][NextOdds]_vars

\* The NHL API caches under a sequence of lookups.
NextStats ==
    \/ Tick
    \/ FetchPlayerGameLogs
    \/ FetchTeamDefense

InitS == InitClock /\ IdleOdds /\ InitStats /\ IdleValidate /\ InitRefresh /\ IdleImpact /\ IdleAnalysis

SpecStats == InitS /\ [][NextStats]_vars

\* validatePlayerAvailability on every combination of its arguments.
InitV == InitClock /\ IdleOdds /\ InitStats /\ InitValidate /\ InitRefresh /\ IdleImpact /\ IdleAnalysis

SpecValidate == InitV /\ [][Validate]_vars

\* Time passes while callers are served or suspended.
Wait == TickBy(WaitSteps, MaxWaits)

\* Concurrent callers of the public functions of the injury cache.
NextRefresh ==
    \/ Wait
    \/ \E p \in Procs : CallFresh(p)
    \/ \E p \in Procs : CallExpired(p)
    \/ \E p \in Procs : FetchesDone(p)
    \/ \E p \in Procs : ImpactsDone(p)

SpecRefresh == Init /\ [][NextRefresh]_vars

\* The impact of a growing injury list of one team, and the game adjustments.
InitI == InitClock /\ IdleOdds /\ InitStats /\ IdleValidate /\ InitRefresh /\ InitImpact /\ IdleAnalysis

NextImpact == AddInjury \/ GetGamePredictionAdjustments

SpecImpact == InitI /\ [][NextImpact]_vars

\* classifyBet called on any bet
InitB == InitClock /\ IdleOdds /\ InitStats /\ IdleValidate /\ InitRefresh /\ IdleImpact /\ InitBet
         /\ IdleTimeout /\ IdleForecast /\ IdleLate

SpecBet == InitB /\ [][ClassifyBetCall]_vars

\* Forecasts for any two players, opponent, venue and prop type
InitF == InitClock /\ IdleOdds /\ InitStats /\ IdleValidate /\ InitRefresh /\ IdleImpact /\ InitBet
         /\ IdleTimeout /\ InitForecast /\ IdleLate

NextForecast ==
    \/ PredictPlayerProp
    \/ PredictMultiplePlayers
    \/ CalculateExpectedGoalsCall
    \/ CalculateProbabilityCall

SpecForecast == InitF /\ [][NextForecast]_vars

\* predictMultiplePlayers against an NHL API that fails
InitU == InitClock /\ IdleOdds /\ InitStats /\ IdleValidate /\ InitRefresh /\ IdleImpact /\ InitBet
         /\ IdleTimeout /\ InitBatch /\ IdleLate
SpecBatch == InitU /\ [][PredictMultiplePlayers]_vars

\* Requests to upstreams of which some never answer.  Every continuation that is
\* ready runs (the event loop), and an upstream that answers does so eventually.
InitT == InitClock /\ IdleOdds /\ InitStats /\ IdleValidate /\ InitRefresh /\ IdleImpact /\ InitBet
         /\ InitTimeout /\ IdleForecast /\ IdleLate

NextTimeout ==
    \/ RefreshStarts
    \/ EspnRequestEnds
    \/ OddsRequestEnds
    \/ BothFetched
    \/ ClubStatsRequestEnds
    \/ GameLogsStarts
    \/ GameLogsRequestEnds

SpecTimeout ==
    /\ InitT /\ [][NextTimeout]_vars
    /\ WF_vars(RefreshStarts) /\ WF_vars(EspnRequestEnds) /\ WF_vars(OddsRequestEnds)
    /\ WF_vars(BothFetched) /\ WF_vars(ClubStatsRequestEnds)
    /\ WF_vars(GameLogsStarts) /\ WF_vars(GameLogsRequestEnds)

\* The refresh handler, invoked by the hourly cron and by anyone else, with the
\* schedule handler beside it
InitC == InitClock /\ IdleOdds /\ InitStats /\ IdleValidate /\ InitRefresh /\ IdleImpact /\ InitBet
         /\ IdleTimeout /\ IdleForecast /\ InitCron /\ InitRust /\ InitRoute

NextCron ==
    \/ HourPasses
    \/ ScheduleGet
    \/ \E p \in Procs : GetStarts(p)
    \/ \E p \in Procs : GetChecks(p)
    \/ \E p \in Procs : GetRefreshed(p)

SpecCron == InitC /\ [][NextCron]_vars

\* The schedule handler on every first-game hour
InitH == InitClock /\ IdleOdds /\ InitStats /\ IdleValidate /\ InitRefresh /\ IdleImpact /\ InitBet
         /\ IdleTimeout /\ IdleForecast /\ InitSchedule /\ InitRust /\ InitRoute

NextSchedule == HourPasses \/ ScheduleGet

SpecSchedule == InitH /\ [][NextSchedule]_vars

\* Players tracked game after game on their return
InitR == InitClock /\ IdleOdds /\ InitStats /\ IdleValidate /\ InitRefresh /\ IdleImpact /\ InitBet
         /\ IdleTimeout /\ IdleForecast /\ IdleCron /\ InitRust /\ InitRoute

NextRust == \E playerName \in ReturningNames, team \in {"EDM", "OTT"} :
                TrackReturningPlayer(playerName, team)

SpecRust == InitR /\ [][NextRust]_vars

\* Requests to the player-props route
InitP == InitClock /\ IdleOdds /\ InitStats /\ IdleValidate /\ InitRefresh /\ IdleImpact /\ InitBet
         /\ IdleTimeout /\ IdleForecast /\ IdleCron /\ InitRust /\ InitRoute

SpecRoute == InitP /\ [][PropsGet]_vars

----------------------------------------------------------------------------
(* Claims *)

\* C1: after a 401 of the Odds API, no later fetchPlayersWithProps call sends a
\* request to the Odds API before QUOTA_LOCKOUT_MINUTES have passed since that 401.
C1_NoRequestDuringLockout ==
    (propsCall.nreq > 0 /\ propsCall.prev401 >= 0)
        => propsCall.t - propsCall.prev401 >= QUOTA_LOCKOUT_MINUTES

\* C2: a fetchPlayersWithProps call answered from the lockout branch returns the
\* set that was cached right before the quota signal arrived.
C2_LockoutServesLastKnown ==
    propsCall.locked => propsCall.ret = lastKnown

\* C3: at most one refreshInjuryCache run is in progress at any time, however many
\* callers find the injury cache expired.
C3_SingleRefreshInFlight ==
    Cardinality({p \in Procs : pc[p] # "idle"}) <= 1

\* C4: for each TTL cache, once a refresh of a key was degraded (upstream failed,
\* timed out or returned nothing), no lookup of that key calls the upstream again
\* within the TTL.
C4_DegradedResultIsCached ==
    /\ (statsCall.cache = "gameLogs" /\ statsCall.hit /\ statsCall.prevAttempt.degraded)
            => statsCall.t - statsCall.prevAttempt.t >= CACHE_TTL_GAME_LOGS
    /\ (statsCall.cache = "teamDefense" /\ statsCall.hit /\ statsCall.prevAttempt.degraded)
            => statsCall.t - statsCall.prevAttempt.t >= CACHE_TTL_TEAM_DEFENSE
    /\ (propsCall.nreq > 0 /\ propsCall.prevAttempt.degraded)
            => propsCall.t - propsCall.prevAttempt.t >= ODDS_PROPS_CACHE_MINUTES


C6_EmptyMarketAgreesTwo ==
    (vOut # NoAvailability /\ vIn.normalized \in vIn.espnInjured /\ vIn.playersWithProps = {})
        => vOut.finalVerdict = "OUT" /\ vOut.sourcesAgree = 2

\* C6 amended: an ESPN-injured player and an empty props set give verdict OUT with
\* sourcesAgree 1; sourcesAgree is 2 when the props set is not empty and does not
\* contain the player.
C6_EmptyMarketAgreesOne ==
    (vOut # NoAvailability /\ vIn.normalized \in vIn.espnInjured)
        => /\ vIn.playersWithProps = {}
                => vOut.finalVerdict = "OUT" /\ vOut.sourcesAgree = 1
           /\ (vIn.playersWithProps # {} /\ vIn.normalized \notin vIn.playersWithProps)
                => vOut.finalVerdict = "OUT" /\ vOut.sourcesAgree = 2

C6_Witness ==
    /\ vIn.normalized \in vIn.espnInjured
    /\ vIn.playersWithProps = {}
    /\ vOut.finalVerdict = "OUT"

\* C7: a player who is not on the ESPN injured list gets verdict PLAYING whatever
\* the market signal; sourcesAgree is 2 when he has props and 1 otherwise.
C7_HealthyAlwaysPlaying ==
    (vOut # NoAvailability /\ vIn.normalized \notin vIn.espnInjured)
        => /\ vOut.finalVerdict = "PLAYING"
           /\ vOut.sourcesAgree = IF vIn.normalized \in vIn.playersWithProps THEN 2 ELSE 1

\* A healthy player was validated against a props set that does not list him.
C7_Witness ==
    /\ vIn.normalized \notin vIn.espnInjured
    /\ vOut.oddsStatus = "no_props"
    /\ vOut.finalVerdict = "PLAYING"

\* C8: with one more injured player on the team (n >= 1 before), the compounding
\* multiplier of the recomputed team impact is not smaller than before.
C8_CompoundingNonDecreasing ==
    [][(impact.injuryCount >= 1 /\ impact'.injuryCount = impact.injuryCount + 1)
          => impact'.compoundingMultiplier >= impact.compoundingMultiplier]_vars

\* C9: when a second tier-1 player of the team becomes unavailable, the compounding
\* multiplier is strictly greater than with the first one alone.
C9_TwoStarsCompound ==
    [][(/\ impact.injuryCount = 1 /\ impact.starPlayersOut = <<1>>
        /\ impact'.injuryCount = 2 /\ impact'.starPlayersOut = <<1, 1>>)
          => impact'.compoundingMultiplier > impact.compoundingMultiplier]_vars

\* C10: every adjustment of the team impact and both win-probability adjustments
\* of getGamePredictionAdjustments stay within their clamp bounds.
C10_AdjustmentsWithinBounds ==
    /\ impact.totalWinProbAdjustment >= -WP_BOUND /\ impact.totalWinProbAdjustment <= WP_BOUND
    /\ impact.powerPlayAdjustment >= -PP_BOUND /\ impact.powerPlayAdjustment <= PP_BOUND
    /\ impact.penaltyKillAdjustment >= -PK_BOUND /\ impact.penaltyKillAdjustment <= PK_BOUND
    /\ impact.expectedGoalsForAdjustment >= -XG_BOUND
    /\ impact.expectedGoalsForAdjustment <= XG_BOUND
    /\ impact.expectedGoalsAgainstAdjustment >= -XG_BOUND
    /\ impact.expectedGoalsAgainstAdjustment <= XG_BOUND
    /\ gameAdj.homeWinProbAdjustment >= -(20 * WP_BOUND)
    /\ gameAdj.homeWinProbAdjustment <= 20 * WP_BOUND
    /\ gameAdj.awayWinProbAdjustment >= -(20 * WP_BOUND)
    /\ gameAdj.awayWinProbAdjustment <= 20 * WP_BOUND

\* C11 (as stated): of two classifyBet calls with a market quote and the same prop
\* type, confidence and games played, the one with the larger edge does not get
\* the lower tier.
C11_TierMonotonicInEdge ==
    (betOrder.related /\ betOrder.edgeLeq) => betOrder.tierLeq

\* C11 (amended): the same, for two calls that also have the same model probability.
C11_TierMonotonicInEdgeAtFixedProbability ==
    (betOrder.related /\ betOrder.sameProbability /\ betOrder.edgeLeq) => betOrder.tierLeq

C11_Witness ==
    /\ betOrder.related /\ betOrder.sameProbability /\ betOrder.edgeLeq /\ betOrder.tierLt
    /\ bet.result.classification = "strong_value"

\* C12 (as stated): without a market quote classifyBet returns lean or none, and
\* lean exactly when model probability >= 0.50 and confidence >= 0.50.
C12_LeanWithoutQuote ==
    (bet.called /\ bet.result.bookOdds = NoOdds) =>
        /\ bet.result.classification \in {"lean", "none"}
        /\ bet.result.classification = "lean" <=>
              (bet.result.modelProbability >= 500 /\ bet.result.confidence >= 50)

\* C12 (amended): lean exactly when, besides, the games played reach the prop
\* type's minimum sample.
C12_LeanWithoutQuoteNeedsSample ==
    (bet.called /\ bet.result.bookOdds = NoOdds) =>
        /\ bet.result.classification \in {"lean", "none"}
        /\ bet.result.classification = "lean" <=>
              /\ bet.result.modelProbability >= 500
              /\ bet.result.confidence >= 50
              /\ bet.result.gamesPlayed >= PROP_THRESHOLDS(bet.propType).minGamesPlayed

C12_Witness ==
    /\ bet.called /\ bet.result.bookOdds = NoOdds
    /\ bet.result.classification = "lean"
    /\ "no_book_odds" \in bet.result.reasons

\* C13: a verdict whose edge exceeds 0.25 carries the review warning in its
\* rationale and recommends no stake (kellyFraction 0).
C13_SuspiciousEdgeNotStaked ==
    (bet.called /\ bet.result.edgeNum > 250 * bet.result.edgeDen) =>
        /\ "edge_unusually_high" \in bet.result.reasons
        /\ bet.result.kellyFraction = 0

\* C14: kellyFraction is the fixed fraction of the tier, below 1, and 0 exactly
\* when the tier is none.
C14_KellyFractionOfTier ==
    bet.called =>
        /\ bet.result.classification = "best_bet" => bet.result.kellyFraction = 50
        /\ bet.result.classification = "strong_value" => bet.result.kellyFraction = 25
        /\ bet.result.classification = "value" => bet.result.kellyFraction = 15
        /\ bet.result.classification = "lean" => bet.result.kellyFraction = 10
        /\ bet.result.classification = "none" => bet.result.kellyFraction = 0
        /\ bet.result.classification \in {"best_bet", "strong_value", "value", "lean", "none"}
        /\ bet.result.kellyFraction < 100
        /\ bet.result.kellyFraction = 0 <=> bet.result.classification = "none"

C14_Witness ==
    /\ bet.called /\ bet.result.classification = "best_bet"
    /\ bet.result.kellyFraction = 50

\* C15: every call returns although an upstream never answers: a started
\* refreshInjuryCache run returns, and so does a started fetchPlayerGameLogs call.
C15_EveryCallReturns ==
    /\ (run.phase = "step1") ~> (run.phase = "returned")
    /\ (logsCall = "gameLog") ~> (logsCall = "returned")

\* C16: every forecast predictPlayerProp or predictMultiplePlayers returns has
\* 0 < probability < 1 and expectedValue >= 0.
C16_ForecastInRange ==
    forecast.kind \in {"single", "multiple"} =>
        \A i \in DOMAIN forecast.results :
            ~forecast.results[i].isNull =>
                /\ forecast.results[i].probability > 0
                /\ forecast.results[i].probability < 10000
                /\ forecast.results[i].expectedValue >= 0

C16_Witness ==
    /\ forecast.kind = "multiple" /\ Len(forecast.results) = 2
    /\ forecast.results[1].propType = "shots"
    /\ forecast.results[1].probability < forecast.results[2].probability
    /\ forecast.results[1].expectedValue > 0

\* C17: a requested player with fewer than 15 game-log entries, or whose season
\* rate for the prop type is below the quality threshold, gets no forecast.
C17_NoForecastBelowSampleOrQuality ==
    forecast.kind \in {"single", "multiple"} =>
        \A k \in DOMAIN forecast.requested :
            LET playerId == forecast.requested[k]
                gameLogs == GameLogsOfPlayer[playerId]
                total == CASE fArgs.propType = "goalscorer" -> SumOf(gameLogs, "goals")
                           [] fArgs.propType = "shots" -> SumOf(gameLogs, "shots")
                           [] fArgs.propType = "assists" -> SumOf(gameLogs, "assists")
                           [] OTHER -> SumOf(gameLogs, "points")
                minimum == CASE fArgs.propType = "goalscorer" -> 15
                             [] fArgs.propType = "shots" -> 150
                             [] fArgs.propType = "assists" -> 15
                             [] OTHER -> 25
            IN (Len(gameLogs) < 15 \/ 100 * total < minimum * Len(gameLogs)) =>
                   \A i \in DOMAIN forecast.results :
                       forecast.results[i].isNull \/ forecast.results[i].playerId # playerId

C17_Witness ==
    /\ forecast.kind = "multiple" /\ Len(forecast.results) = 1
    /\ Len(GameLogsOfPlayer[forecast.requested[1]]) >= 15
    /\ forecast.results[1].playerId = forecast.requested[2]

\* every factor that can be neutral is: only the venue factor is left
OnlyVenueInEffect ==
    /\ forecast.factors.recentFormMultiplier = SCALE
    /\ forecast.factors.ppBoost = SCALE
    /\ forecast.factors.goalieAdjustment = SCALE
    /\ forecast.factors.defenseAdjustment = SCALE

\* C18 (as stated): the base rate is 0.6 x recent + 0.4 x season, 0.38 for recent
\* 0.5 and season 0.3, and with no other modifier in effect the expected value is
\* that base rate.
C18_BaseRateScenario ==
    forecast.kind = "goals" =>
        /\ 10 * forecast.factors.baseGoalsPerGame
              = 6 * forecast.player.recentGoalsPerGame + 4 * forecast.player.seasonGoalsPerGame
        /\ (forecast.player.recentGoalsPerGame = 5000 /\ forecast.player.seasonGoalsPerGame = 3000)
              => /\ forecast.factors.baseGoalsPerGame = 3800
                 /\ OnlyVenueInEffect => forecast.lambda = 3800

\* C18 (amended): the base rate is 0.42 for recent 0.5 and season 0.3, and with
\* every other modifier neutral the expected value is the base rate times the
\* venue factor: 0.441 at home, 0.399 on the road.
C18_BaseRateTimesVenue ==
    forecast.kind = "goals" =>
        /\ 10 * forecast.factors.baseGoalsPerGame
              = 6 * forecast.player.recentGoalsPerGame + 4 * forecast.player.seasonGoalsPerGame
        /\ (forecast.player.recentGoalsPerGame = 5000 /\ forecast.player.seasonGoalsPerGame = 3000)
              => /\ forecast.factors.baseGoalsPerGame = 4200
                 /\ OnlyVenueInEffect =>
                        forecast.lambda = IF fArgs.isHome THEN 4410 ELSE 3990

C18_Witness ==
    /\ forecast.kind = "goals"
    /\ forecast.player.recentGoalsPerGame = 5000 /\ forecast.player.seasonGoalsPerGame = 3000
    /\ OnlyVenueInEffect /\ ~fArgs.isHome /\ forecast.lambda = 3990

\* The increments of a forecast's confidence, from the player's game logs
SampleIncrementOf(gameLogs) ==
    IF Len(gameLogs) >= 40 THEN 1500 ELSE IF Len(gameLogs) >= 25 THEN 1000
    ELSE IF Len(gameLogs) >= 15 THEN 500 ELSE 0

ProductionIncrementOf(gameLogs, propType) ==
    LET total == CASE propType = "goalscorer" -> SumOf(gameLogs, "goals")
                   [] propType = "shots" -> SumOf(gameLogs, "shots")
                   [] propType = "assists" -> SumOf(gameLogs, "assists")
                   [] OTHER -> SumOf(gameLogs, "points")
        minimum == CASE propType = "goalscorer" -> 15
                     [] propType = "shots" -> 150
                     [] propType = "assists" -> 15
                     [] OTHER -> 25
    IN IF 100 * total >= 3 * minimum * Len(gameLogs) THEN 1500
       ELSE IF 100 * total >= 2 * minimum * Len(gameLogs) THEN 1000
       ELSE IF 100 * total >= minimum * Len(gameLogs) THEN 500
       ELSE 0

ShotVolumeIncrementOf(gameLogs) ==
    IF SumOf(gameLogs, "shots") >= 4 * Len(gameLogs) THEN 1000
    ELSE IF SumOf(gameLogs, "shots") >= 3 * Len(gameLogs) THEN 500
    ELSE 0

FormIncrementOf(gameLogs) ==
    LET recentGoals == SumOf(SubSeq(gameLogs, 1, 5), "goals")
        difference == recentGoals * Len(gameLogs) - 5 * SumOf(gameLogs, "goals")
    IN IF 10 * (IF difference < 0 THEN -difference ELSE difference) < 5 * Len(gameLogs)
       THEN 500 ELSE 0

\* C19 (as stated): the confidence of a forecast is 0.50 plus the sample-size
\* increment plus the production increment, capped at 0.95.
C19_ConfidenceOfSampleAndProduction ==
    forecast.kind \in {"single", "multiple"} =>
        \A i \in DOMAIN forecast.results :
            ~forecast.results[i].isNull =>
                LET gameLogs == GameLogsOfPlayer[forecast.results[i].playerId]
                    sum == 5000 + SampleIncrementOf(gameLogs)
                                + ProductionIncrementOf(gameLogs, fArgs.propType)
                IN forecast.results[i].confidence = IF sum > 9500 THEN 9500 ELSE sum

\* C19 (amended): plus the shot-volume increment and the form increment.
C19_ConfidenceOfFourIncrements ==
    forecast.kind \in {"single", "multiple"} =>
        \A i \in DOMAIN forecast.results :
            ~forecast.results[i].isNull =>
                LET gameLogs == GameLogsOfPlayer[forecast.results[i].playerId]
                    sum == 5000 + SampleIncrementOf(gameLogs)
                                + ProductionIncrementOf(gameLogs, fArgs.propType)
                                + ShotVolumeIncrementOf(gameLogs)
                                + FormIncrementOf(gameLogs)
                IN forecast.results[i].confidence = IF sum > 9500 THEN 9500 ELSE sum

C19_Witness ==
    /\ forecast.kind = "single" /\ ~forecast.results[1].isNull
    /\ forecast.results[1].gamesPlayed >= 40
    /\ ShotVolumeIncrementOf(GameLogsOfPlayer[forecast.results[1].playerId]) > 0
    /\ forecast.results[1].confidence = 8500

\* the injuries of the team as calculateTeamImpact gets them, and the active
\* ones among them without a record in the team's stats
InjuriesOfTeam == InjuriesOf(Rosters[roster], injuries)

WithoutRecord ==
    {i \in DOMAIN InjuriesOfTeam :
        /\ IsActive(InjuriesOfTeam[i])
        /\ InjuriesOfTeam[i].skater = 0 /\ InjuriesOfTeam[i].goalie = 0}

\* C20: an unavailable player without a record in the team's stats, skater or
\* goalie, has a strictly negative win-probability impact, the sum of the team is
\* lower with him than without him, and the team's total adjustment is negative.
C20_PlaceholderImpactNegative ==
    \A i \in WithoutRecord :
        LET rest == SubSeq(InjuriesOfTeam, 1, i - 1)
                       \o SubSeq(InjuriesOfTeam, i + 1, Len(InjuriesOfTeam))
        IN /\ ImportanceOf(Rosters[roster], InjuriesOfTeam[i]).winProbImpact < 0
           /\ ImpactLoop(Rosters[roster], ActiveInjuries(InjuriesOfTeam), NoSums).totalWinProbAdjustment
                 < ImpactLoop(Rosters[roster], ActiveInjuries(rest), NoSums).totalWinProbAdjustment
           /\ impact.totalWinProbAdjustment < 0

C20_Witness ==
    /\ \E i \in WithoutRecord : InjuriesOfTeam[i].position = "G"
    /\ \E i \in WithoutRecord : InjuriesOfTeam[i].position = "D"
    /\ Len(injuries) = Cardinality(WithoutRecord)
    /\ impact.totalWinProbAdjustment < 0
    /\ impact.totalWinProbAdjustment > -WP_BOUND

\* C21: in predictMultiplePlayers a failed, timed-out or malformed answer for one
\* player or for the opponent never aborts the batch: the call does not throw, the
\* player whose game logs failed is omitted, a failed team defense is replaced by
\* the league averages, and every other player gets the forecast he would get.
C21_BatchSurvivesUpstreamFailure ==
    forecast.kind = "multiple" =>
        /\ ~forecast.threw
        /\ \A i \in 1..2 :
            LET playerId == fArgs.players[i]
                oppDefense == IF fArgs.defenseResponse = "ok" THEN fArgs.oppDefense
                              ELSE TeamDefense(LEAGUE_AVG_GOALS_AGAINST, LEAGUE_AVG_SAVE_PCT)
                undisturbed == PredictionOf(playerId, GameLogsOfPlayer[playerId], oppDefense,
                                            fArgs.isHome, fArgs.propType)
            IN IF fArgs.logsResponse[i] # "ok" \/ undisturbed.isNull
               THEN \A k \in DOMAIN forecast.results : forecast.results[k].playerId # playerId
               ELSE \E k \in DOMAIN forecast.results : forecast.results[k] = undisturbed

C21_Witness ==
    /\ forecast.kind = "multiple"
    /\ fArgs.logsResponse = <<"badShape", "ok">> /\ fArgs.defenseResponse = "timeout"
    /\ Len(forecast.results) = 1
    /\ forecast.results[1].playerId = fArgs.players[2]
    /\ forecast.results[1].factors.goalieAdjustment = SCALE

\* C22: for a fixed ESPN status the agreement count with a market signal that
\* confirms it (injured: no props; healthy: has props) is not lower than the count
\* of the same call with an unknown market signal (an empty props set).
C22_AgreementNotLoweredByConfirmation ==
    (/\ vOut # NoAvailability
     /\ \/ vOut.espnStatus = "injured" /\ vOut.oddsStatus = "no_props"
        \/ vOut.espnStatus = "healthy" /\ vOut.oddsStatus = "has_props")
        => LET unknown == ValidatePlayerAvailability(vIn.normalized, vIn.espnInjured, {})
           IN /\ unknown.espnStatus = vOut.espnStatus
              /\ unknown.oddsStatus = "unknown"
              /\ vOut.sourcesAgree >= unknown.sourcesAgree

C22_Witness ==
    /\ vOut.espnStatus = "injured" /\ vOut.oddsStatus = "no_props"
    /\ vOut.sourcesAgree = 2
    /\ ValidatePlayerAvailability(vIn.normalized, vIn.espnInjured, {}).sourcesAgree = 1

\* C23: classifyBet with model probability 0.60, a quote whose implied probability
\* is 0.50, confidence >= 0.75 and a sufficient sample, for points or assists,
\* has edge 0.10 and returns best_bet with kellyFraction 0.50.
C23_EvenMoneyScenarioIsBestBet ==
    (/\ bet.called
     /\ bet.propType \in {"points", "assists"}
     /\ bet.result.modelProbability = 600
     /\ bet.result.bookOdds # NoOdds
     /\ 2 * bet.result.bookProbability.num = bet.result.bookProbability.den
     /\ bet.result.confidence >= 75
     /\ bet.result.gamesPlayed >= 20)
        => /\ bet.result.edgeNum = 100 * bet.result.edgeDen
           /\ bet.result.classification = "best_bet"
           /\ bet.result.kellyFraction = 50

C23_Witness ==
    /\ bet.called /\ bet.propType = "assists"
    /\ bet.result.modelProbability = 600 /\ bet.result.bookOdds = -100
    /\ bet.result.confidence = 75 /\ bet.result.gamesPlayed = 20
    /\ bet.result.classification = "best_bet"

\* C24: for goalscorer, assists and points (line 0.5) the probability computed
\* from the expected value lambda is 1 - e^(-lambda), in calculateProbability, in
\* goalProbability and in every forecast; 1 - e^(-lambda) lies between
\* lambda - lambda^2 / 2 and lambda, and above 1 - 1 / (1 + lambda).
C24_PoissonIdentity ==
    /\ (forecast.kind = "probability" /\ fArgs.propType # "shots") =>
          /\ forecast.probability = SCALE - ExpNeg(forecast.lambda)
          /\ forecast.goalProbability = forecast.probability
          /\ forecast.probability <= forecast.lambda + 2
          /\ forecast.lambda <= SCALE =>
                forecast.probability
                    >= forecast.lambda - Mul(forecast.lambda, forecast.lambda) \div 2 - 2
          /\ forecast.probability >= SCALE - Div(SCALE, SCALE + forecast.lambda) - 2
    /\ (forecast.kind \in {"single", "multiple"} /\ fArgs.propType # "shots") =>
          \A i \in DOMAIN forecast.results :
              ~forecast.results[i].isNull =>
                  forecast.results[i].probability
                      = SCALE - ExpNeg(forecast.results[i].expectedValue)

C24_Witness ==
    /\ forecast.kind = "probability" /\ fArgs.propType = "points"
    /\ forecast.lambda = 3800
    /\ forecast.probability \in 3160..3162
    /\ forecast.goalProbability \in 3160..3162

\* C25: a fetchPlayersWithProps call with the API key set, made when the cache
\* entry carries a lockout marker whose 60 minutes have passed, sends a request to
\* the Odds API, and unless a 401 comes back it stores an entry of the time of
\* the call without the marker.
C25_LockoutEnds ==
    [][(/\ propsCall' # propsCall
        /\ hasKey
        /\ ~oddsPropsCache.isNull
        /\ oddsPropsCache.quotaExceededUntil # 0
        /\ now > oddsPropsCache.quotaExceededUntil)
          => /\ propsCall'.nreq >= 1
             /\ ~propsCall'.locked
             /\ last401' = last401 =>
                   /\ oddsPropsCache'.quotaExceededUntil = 0
                   /\ oddsPropsCache'.timestamp = now
                   /\ oddsPropsCache'.data = propsCall'.ret]_vars

C25_Witness ==
    /\ hasKey
    /\ propsCall.prev401 >= 0 /\ propsCall.t - propsCall.prev401 > QUOTA_LOCKOUT_MINUTES
    /\ propsCall.prevAttempt.t = propsCall.prev401
    /\ last401 = propsCall.prev401
    /\ propsCall.nreq >= 1 /\ propsCall.ret # {}
    /\ oddsPropsCache.quotaExceededUntil = 0 /\ oddsPropsCache.timestamp = propsCall.t

\* C26: the refresh handler starts at most one data refresh per (date, hour),
\* whatever the number and interleaving of its invocations in that hour.
C26_OneRefreshPerHour ==
    \A i, j \in DOMAIN refreshesStarted :
        refreshesStarted[i] = refreshesStarted[j] => i = j

C28_RustEntriesAdvance ==
    /\ \A n \in NormalizedNames :
         LET entry == returningPlayers[n]
         IN ~entry.isNull
              => /\ entry.gamesSinceReturn \in 1..5
                 /\ entry.rustPenalty = RUST_PENALTY(entry.gamesSinceReturn)
                 /\ entry.rustPenalty = RustPenaltyRead(n)
                 /\ entry.rustPenalty = <<8, 6, 4, 2, 1>>[entry.gamesSinceReturn]
    /\ lastTrack.called
         => LET entry == returningPlayers[lastTrack.normalized]
                existing == lastTrack.existing
            IN /\ existing.isNull => (~entry.isNull /\ entry.gamesSinceReturn = 1)
               /\ (~existing.isNull /\ existing.gamesSinceReturn < 5)
                     => (~entry.isNull
                         /\ entry.gamesSinceReturn = existing.gamesSinceReturn + 1)
               /\ (~existing.isNull /\ existing.gamesSinceReturn = 5) => entry.isNull

C28_Witness ==
    /\ lastTrack.called /\ lastTrack.normalized = "tim stutzle"
    /\ lastTrack.existing.gamesSinceReturn = 5
    /\ returningPlayers["tim stutzle"].isNull
    /\ returningPlayers["connor mcdavid"].gamesSinceReturn = 3
    /\ returningPlayers["connor mcdavid"].rustPenalty = 4

C30_RouteNeverQuotes ==
    /\ oddsCache.isNull
    /\ FetchBookOdds(oddsCache) = NoBookOdds
    /\ \A i \in DOMAIN propsResponse.predictions :
         /\ propsResponse.predictions[i].bookOdds = NoOdds
         /\ propsResponse.predictions[i].betClassification \in {"lean", "none"}
    /\ propsResponse.bestBets = <<>>
    /\ propsResponse.strongValueBets = <<>>

C30_Witness ==
    /\ propsResponse.status = 200
    /\ Len(propsResponse.predictions) = 2
    /\ propsResponse.predictions[1].betClassification = "lean"
    /\ propsResponse.predictions[1].probability = 710
    /\ propsResponse.predictions[2].betClassification = "none"
    /\ Len(propsResponse.leanBets) = 1

====
